---- MODULE Spec2Model ----
(***************************************************************************)
(* A model of the core of the U-Net denoising filter:                      *)
(*   - Graph (src/core/graph.h, src/core/graph.cpp): the op sequence, the  *)
(*     TensorAlloc records with their prev/next chains, the memory planner *)
(*     planAllocations, finalize and clear;                                *)
(*   - UNetFilter (src/core/unet_filter.cpp): the setters, commit,         *)
(*     execute, the tile subdivision of init, checkParams and getWeights.  *)
(* Each part has its own specification over the shared variables; the      *)
(* variables a specification does not use keep their initial values.       *)
(***************************************************************************)
EXTENDS Integers, Sequences, FiniteSets, TLC

(***************************************************************************)
(* Bounds of the model.                                                    *)
(***************************************************************************)
\* the most ops a graph holds
MaxOps == 3
\* the most TensorAlloc records a graph holds (failed adds leave records behind)
MaxAllocs == 3
\* the aligned byte sizes of destination tensors are 1..MaxByteSize
MaxByteSize == 2
\* the per-op scratch sizes are 0..MaxOpScratch
MaxOpScratch == 1
\* the most TensorAlloc records that failed adds leave on a finalized graph
MaxOrphans == 1

\* stands for the largest size_t; every size of the model is far below it
SIZE_MAX == 2147483647

VARIABLES
  \* ---- Graph (graph.h:109-122)
  ops,                   \* std::vector<std::shared_ptr<Op>>
  scratch,               \* Ref<Buffer>: TRUE when a buffer is bound
  opScratchByteSize,
  tensorScratchByteSize,
  constByteSize,
  dirty,
  finalized,
  tensorAllocs,          \* std::vector<std::unique_ptr<TensorAlloc>>
  tensorAllocsByOp,      \* unordered_map<Op*, TensorAlloc*>
  lazyInits,             \* one entry per recorded closure: the op it initializes
  weights,               \* unordered_map<string, shared_ptr<Tensor>>: key -> rank
  trace,                 \* what the last call did to the scratch buffer, the ops and
                         \* the progress reporter, in order
  \* ---- Engine / Device properties the graph reads
  tensorLayout,          \* "hwc" or "chw"
  fusedPostOps,          \* the postOps for which isConvSupported is true
  \* ---- the last call on the graph and how it ended
  call,                  \* [op, name]: the last call and the name it was given
  err,                   \* "none", an exception, or "crash" (the process ended)
  ret,                   \* what the call returned
  ub,                    \* some call so far had undefined behaviour
  \* ---- UNetFilter: the image, the device and the tile grid (unet_filter.cpp:221-254)
  H, W,                  \* output->getH(), output->getW()
  overlap, alignment,    \* the filter's tile overlap and alignment
  numEngines,            \* device->getNumEngines()
  tileH, tileW,
  tileCountH, tileCountW,
  ipc,                   \* "loop" while commit is inside the tile loop of init, else "idle"
  fallback,              \* init took the branch that builds without a memory ceiling
  tiles,                 \* the tiles the last execute configured, in order
  \* ---- UNetFilter: parameters and per-commit state
  color, albedo, normal, output,         \* images, NoImage when not set
  hdr, srgb, directional, cleanAux,
  progressFunc,          \* a progress monitor function is set
  userWeightsBlob,       \* the "weights" data parameter, NoData when not set
  inputScale,
  inplace, fDirty, dirtyParam,           \* fDirty is the filter's dirty flag
  weightsBlob,           \* the blob the instance graphs were created with
  instances,             \* the instances hold a built model
  autoexposure, outputTemp,
  submitted,             \* what the last execute submitted to the device, in order
  fcall, ferr, warned,   \* the last filter call, its error, whether it logged a warning
  fmsg,                  \* the message of that error
  model,                 \* the scratch layout of the model buildModel built, NoModel without one
  outputDst,             \* what the last execute bound the output processes to
  commitWaits,           \* the device->wait() calls of the last call, when it was a commit
  \* ---- Graph::reorderWeight / reorderBias (graph.cpp:505-588)
  srcTensor, dstTensor,  \* the tensors src and dst of the call
  reorderArgs,           \* [srcBeginI, srcI, dstBeginI, dstI]
  rcall, rerr,           \* the last reorder call, "none" before any, and its error
  \* ---- UNetFilter::buildModel / resetModel (unet_filter.cpp:366-512)
  instanceGraphs,        \* instances[i].graph, one Graph record per engine
  scratchBuffers,        \* the sizes the last buildModel passed to newScratchBuffer, in order
  imageCopy,             \* the image copy op of outputTemp is set
  bcall                  \* the last buildModel call: its budget, inputs and result

graphVars == <<ops, scratch, opScratchByteSize, tensorScratchByteSize, constByteSize,
               dirty, finalized, tensorAllocs, tensorAllocsByOp, lazyInits, weights, trace,
               tensorLayout, fusedPostOps, call, err, ret, ub>>

tileVars == <<H, W, overlap, alignment, numEngines, tileH, tileW, tileCountH, tileCountW,
              ipc, fallback, tiles>>

paramVars == <<color, albedo, normal, output, hdr, srgb, directional, cleanAux,
               progressFunc>>

filterVars == <<userWeightsBlob, inputScale, inplace, fDirty, dirtyParam, weightsBlob,
                instances, autoexposure, outputTemp, submitted, fcall, ferr, warned, fmsg,
                model, outputDst, commitWaits>>

reorderVars == <<srcTensor, dstTensor, reorderArgs, rcall, rerr>>

buildVars == <<instanceGraphs, scratchBuffers, imageCopy, bcall>>

nonGraphVars == <<tileVars, paramVars, filterVars, reorderVars, buildVars>>

vars == <<graphVars, tileVars, paramVars, filterVars, reorderVars, buildVars>>

Max(a, b) == IF a >= b THEN a ELSE b
Min(a, b) == IF a <= b THEN a ELSE b

(***************************************************************************)
(* Maps (std::unordered_map).  operator[] on a missing key inserts a       *)
(* value-initialized entry: a null pointer, written 0 (NullPtr).           *)
(***************************************************************************)
NullPtr == 0
EmptyMap == [k \in {} |-> NullPtr]
MapPut(m, k, v) == [x \in (DOMAIN m) \cup {k} |-> IF x = k THEN v ELSE m[x]]
MapGet(m, k) == IF k \in DOMAIN m THEN m[k] ELSE NullPtr
MapTouch(m, k) == IF k \in DOMAIN m THEN m ELSE MapPut(m, k, NullPtr)

(***************************************************************************)
(* TensorAlloc (graph.h:67-88).  next and prev are positions in            *)
(* tensorAllocs (1-based), NullPtr for nullptr.  byteSize stands for       *)
(* desc.getAlignedSize().                                                  *)
(***************************************************************************)
TensorAlloc(byteSize, firstOpID) ==
  [byteSize   |-> byteSize,
   firstOpID  |-> firstOpID,
   lastOpID   |-> firstOpID,
   next       |-> NullPtr,
   prev       |-> NullPtr,
   byteOffset |-> 0]

(***************************************************************************)
(* The weight map as parseTZA leaves it.  A value is the rank of the       *)
(* stored tensor.  The blob holds the entries of one convolution, "conv";  *)
(* they are well formed, or one of them is missing or has a wrong rank.    *)
(***************************************************************************)
ConvNames == {"conv"}
WeightKey(name) == name \o ".weight"
BiasKey(name) == name \o ".bias"
WeightMap(w, b) ==
  [k \in {WeightKey("conv") : x \in {w} \ {NullPtr}} \cup
         {BiasKey("conv") : x \in {b} \ {NullPtr}} |->
     IF k = WeightKey("conv") THEN w ELSE b]
\* <<rank of the weight, rank of the bias>>, NullPtr for a missing entry
WeightBlobs == {<<4, 1>>, <<3, 1>>, <<4, 2>>, <<NullPtr, 1>>, <<4, NullPtr>>}

ByteSizes == 1..MaxByteSize
OpScratchSizes == 0..MaxOpScratch
\* the byte sizes of a convolution's final weight and bias tensors
WeightByteSize == 2
BiasByteSize == 1

(***************************************************************************)
(* The graph as one record, so that a handler that calls other handlers    *)
(* (addConv splitting a fused convolution) can thread the state through.   *)
(***************************************************************************)
G ==
  [ops |-> ops, scratch |-> scratch, opScratchByteSize |-> opScratchByteSize,
   tensorScratchByteSize |-> tensorScratchByteSize, constByteSize |-> constByteSize,
   dirty |-> dirty, finalized |-> finalized, tensorAllocs |-> tensorAllocs,
   tensorAllocsByOp |-> tensorAllocsByOp, lazyInits |-> lazyInits, weights |-> weights,
   trace |-> <<>>, err |-> "none", ub |-> ub]

SetGraph(g) ==
  /\ ops' = g.ops
  /\ scratch' = g.scratch
  /\ opScratchByteSize' = g.opScratchByteSize
  /\ tensorScratchByteSize' = g.tensorScratchByteSize
  /\ constByteSize' = g.constByteSize
  /\ dirty' = g.dirty
  /\ finalized' = g.finalized
  /\ tensorAllocs' = g.tensorAllocs
  /\ tensorAllocsByOp' = g.tensorAllocsByOp
  /\ lazyInits' = g.lazyInits
  /\ trace' = g.trace
  /\ weights' = g.weights
  /\ err' = g.err
  /\ ub' = g.ub

(***************************************************************************)
(* Graph::addOp (graph.cpp:267-295): the loop over the source ops.         *)
(* srcAllocs are the positions of the sources' TensorAllocs.  The result   *)
(* carries the records as the loop left them, also when it threw.          *)
(***************************************************************************)
\* a loop that links the sources and leaves their lastOpID alone
RECURSIVE LinkSrcsKeepsLastOp(_, _, _, _, _, _)
LinkSrcsKeepsLastOp(allocs, srcAllocs, opID, concatSrcs, k, prev) ==
  IF k > Len(srcAllocs)
  THEN [allocs |-> allocs, ok |-> TRUE]
  ELSE LET cur == srcAllocs[k]
       IN IF concatSrcs /\ prev # NullPtr
          THEN IF allocs[cur].prev # NullPtr \/ allocs[prev].next # NullPtr
               THEN [allocs |-> allocs, ok |-> FALSE]
               ELSE LET a2 == [allocs EXCEPT ![cur].prev = prev]
                        a3 == [a2 EXCEPT ![prev].next = cur]
                    IN LinkSrcsKeepsLastOp(a3, srcAllocs, opID, concatSrcs, k + 1, cur)
          ELSE LinkSrcsKeepsLastOp(allocs, srcAllocs, opID, concatSrcs, k + 1, cur)

RECURSIVE LinkSrcs(_, _, _, _, _, _)
LinkSrcs(allocs, srcAllocs, opID, concatSrcs, k, prev) ==
  IF k > Len(srcAllocs)
  THEN [allocs |-> allocs, ok |-> TRUE]
  ELSE LET cur == srcAllocs[k]
           a1  == [allocs EXCEPT ![cur].lastOpID = opID]
       IN IF concatSrcs /\ prev # NullPtr
          THEN IF a1[cur].prev # NullPtr \/ a1[prev].next # NullPtr
               THEN [allocs |-> a1, ok |-> FALSE]
               ELSE LET a2 == [a1 EXCEPT ![cur].prev = prev]
                        a3 == [a2 EXCEPT ![prev].next = cur]
                    IN LinkSrcs(a3, srcAllocs, opID, concatSrcs, k + 1, cur)
          ELSE LinkSrcs(a1, srcAllocs, opID, concatSrcs, k + 1, cur)

\* Graph::addOp without a destination (graph.cpp:267-295)
AddOpNoDst(g, op, srcOps, concatSrcs) ==
  IF g.finalized
  THEN [g EXCEPT !.err = "logic_error"]
  ELSE LET opID   == Len(g.ops)
           linked == LinkSrcs(g.tensorAllocs,
                              [k \in 1..Len(srcOps) |-> g.tensorAllocsByOp[srcOps[k]]],
                              opID, concatSrcs, 1, NullPtr)
       IN IF ~linked.ok
          THEN [g EXCEPT !.tensorAllocs = linked.allocs, !.err = "logic_error"]
          ELSE [g EXCEPT !.tensorAllocs = linked.allocs,
                         !.ops = Append(@, op),
                         !.dirty = TRUE]

\* Graph::addOp with a destination (graph.cpp:297-310).  An op is identified
\* by the ID it gets (or would have got) in ops.
AddOpDst(g, op, srcOps, dstByteSize, concatSrcs) ==
  LET opID == Len(g.ops)
      g1   == [g EXCEPT !.tensorAllocs = Append(@, TensorAlloc(dstByteSize, opID)),
                        !.tensorAllocsByOp = MapPut(@, opID, Len(g.tensorAllocs) + 1)]
  IN AddOpNoDst(g1, op, srcOps, concatSrcs)

(***************************************************************************)
(* Undefined behaviour.  Dereferencing the null pointer that operator[]    *)
(* inserted for a missing key either ends the process ("crash") or reads   *)
(* an indeterminate value: one that fails the check that follows           *)
(* ("reject") or one that passes it ("proceed").                           *)
(***************************************************************************)
UBOutcomes == {"crash", "reject", "proceed"}
Crash(g) == [g EXCEPT !.err = "crash", !.ub = TRUE]

Op(kind, name, srcOps, opScratch) ==
  [kind |-> kind, name |-> name, srcs |-> srcOps, scratch |-> opScratch]

\* `tensorAllocsByOp[srcOp.get()]` followed by `srcAlloc->desc`
\* (graph.cpp:44-45, 101-102, 141-144, 234-235, 252-253)
LookupSrc(g, srcOp) == [g EXCEPT !.tensorAllocsByOp = MapTouch(@, srcOp)]
SrcIsNull(g, srcOp) == MapGet(g.tensorAllocsByOp, srcOp) = NullPtr

\* Graph::addInputProcess (graph.cpp:19-36)
AddInputProcessG(g, name, dstByteSize, opScratch) ==
  LET g1 == AddOpDst(g, Op("InputProcess", name, <<>>, opScratch), <<>>, dstByteSize, FALSE)
  IN IF g1.err # "none" THEN g1
     ELSE [g1 EXCEPT !.lazyInits = Append(@, Len(g.ops))]

\* Graph::addOutputProcess (graph.cpp:38-56)
AddOutputProcessG(g, name, srcOp, opScratch, ubo) ==
  LET g0 == LookupSrc(g, srcOp)
      op == Op("OutputProcess", name, <<srcOp>>, opScratch)
  IN IF SrcIsNull(g0, srcOp)
     THEN IF ubo = "crash" \/ ~g0.finalized
          THEN Crash(g0)
          ELSE AddOpNoDst([g0 EXCEPT !.ub = TRUE], op, <<srcOp>>, FALSE)
     ELSE LET g1 == AddOpNoDst(g0, op, <<srcOp>>, FALSE)
          IN IF g1.err # "none" THEN g1
             ELSE [g1 EXCEPT !.lazyInits = Append(@, Len(g.ops))]

\* Graph::addPool (graph.cpp:231-247) and Graph::addUpsample (graph.cpp:249-265)
AddUnaryG(g, kind, name, srcOp, dstByteSize, opScratch, ubo) ==
  LET g0 == LookupSrc(g, srcOp)
      op == Op(kind, name, <<srcOp>>, opScratch)
  IN IF SrcIsNull(g0, srcOp)
     THEN IF ubo = "crash" \/ ~g0.finalized
          THEN Crash(g0)
          ELSE AddOpDst([g0 EXCEPT !.ub = TRUE], op, <<srcOp>>, dstByteSize, FALSE)
     ELSE LET g1 == AddOpDst(g0, op, <<srcOp>>, dstByteSize, FALSE)
          IN IF g1.err # "none" THEN g1
             ELSE [g1 EXCEPT !.lazyInits = Append(@, Len(g.ops))]

AddPoolG(g, name, srcOp, dstByteSize, opScratch, ubo) ==
  AddUnaryG(g, "Pool", name, srcOp, dstByteSize, opScratch, ubo)

AddUpsampleG(g, name, srcOp, dstByteSize, opScratch, ubo) ==
  AddUnaryG(g, "Upsample", name, srcOp, dstByteSize, opScratch, ubo)

(***************************************************************************)
(* The weight lookup and rank check shared by addConv and addConcatConv    *)
(* (graph.cpp:78-82, 133-137).  Both operator[] calls come first; the      *)
(* check reads the weight's rank, and the bias's only when the weight's    *)
(* is 4.  The result is the graph with the entries inserted and            *)
(* err = "none" when the check passed.                                     *)
(***************************************************************************)
LookupWeights(g, name, ubo) ==
  LET g0 == [g EXCEPT !.weights = MapTouch(MapTouch(@, WeightKey(name)), BiasKey(name))]
      w  == g0.weights[WeightKey(name)]
      b  == g0.weights[BiasKey(name)]
      nullDeref == w = NullPtr \/ (w = 4 /\ b = NullPtr)
  IN IF nullDeref
     THEN CASE ubo = "crash"   -> Crash(g0)
            [] ubo = "reject"  -> [g0 EXCEPT !.err = "invalid_argument", !.ub = TRUE]
            [] ubo = "proceed" -> [g0 EXCEPT !.ub = TRUE]
     ELSE IF w # 4 \/ b # 1
          THEN [g0 EXCEPT !.err = "invalid_argument"]
          ELSE g0

\* Graph::addConv without the split (graph.cpp:78-125)
AddConvFused(g, name, srcOp, postOp, dstByteSize, opScratch, ubo) ==
  LET g0 == LookupWeights(g, name, ubo)
      g1 == LookupSrc(g0, srcOp)
      op == [Op("Conv", name, <<srcOp>>, opScratch) EXCEPT !.kind =
               IF postOp = "None" THEN "Conv" ELSE "Conv+" \o postOp]
  IN IF g0.err # "none" THEN g0
     ELSE IF SrcIsNull(g1, srcOp)
     THEN IF ubo = "crash" \/ ~g1.finalized
          THEN Crash(g1)
          ELSE AddOpDst([g1 EXCEPT !.ub = TRUE], op, <<srcOp>>, dstByteSize, FALSE)
     ELSE LET g2 == AddOpDst(g1, op, <<srcOp>>, dstByteSize, FALSE)
          IN IF g2.err # "none" THEN g2
             ELSE [g2 EXCEPT !.lazyInits = Append(@, Len(g.ops)),
                             !.constByteSize = @ + WeightByteSize + BiasByteSize]

\* an addConv that hands every post-op to the engine as a fused convolution
AddConvGAlwaysFused(g, name, srcOp, postOp, sizes, scratches, ubo) ==
  AddConvFused(g, name, srcOp, postOp, sizes[1], scratches[1], ubo)

\* Graph::addConv (graph.cpp:58-126).  sizes and scratches hold the
\* destination size and op scratch of the convolution and of the pool or
\* upsample op a split adds.
AddConvG(g, name, srcOp, postOp, sizes, scratches, ubo) ==
  IF postOp # "None" /\ postOp \notin fusedPostOps
  THEN LET g1 == AddConvFused(g, name, srcOp, "None", sizes[1], scratches[1], ubo)
           conv == Len(g.ops)
       IN IF g1.err # "none" THEN g1
          ELSE IF postOp = "Pool"
               THEN AddPoolG(g1, name \o "_pool", conv, sizes[2], scratches[2], ubo)
               ELSE AddUpsampleG(g1, name \o "_upsample", conv, sizes[2], scratches[2], ubo)
  ELSE AddConvFused(g, name, srcOp, postOp, sizes[1], scratches[1], ubo)

\* the op that a successful addConv returns, by its ID: the pool or upsample
\* op of a split (graph.cpp:70, 72), else the convolution (graph.cpp:125)
AddConvReturned(g, postOp) ==
  IF postOp # "None" /\ postOp \notin fusedPostOps
  THEN Len(g.ops) + 1
  ELSE Len(g.ops)

\* Graph::addConcatConv (graph.cpp:128-229)
AddConcatConvG(g, name, src1Op, src2Op, dstByteSize, opScratch, ubo) ==
  LET g0 == LookupWeights(g, name, ubo)
      g1 == LookupSrc(LookupSrc(g0, src1Op), src2Op)
      hwc == tensorLayout = "hwc"
      op == Op(IF hwc THEN "ConcatConvHWC" ELSE "ConcatConvCHW", name,
               <<src1Op, src2Op>>, opScratch)
  IN IF g0.err # "none" THEN g0
     ELSE IF SrcIsNull(g1, src1Op) \/ SrcIsNull(g1, src2Op)
     THEN IF ubo = "crash" \/ ~g1.finalized
          THEN Crash(g1)
          ELSE AddOpDst([g1 EXCEPT !.ub = TRUE], op, <<src1Op, src2Op>>, dstByteSize, ~hwc)
     ELSE LET g2 == AddOpDst(g1, op, <<src1Op, src2Op>>, dstByteSize, ~hwc)
          IN IF g2.err # "none" THEN g2
             ELSE [g2 EXCEPT !.lazyInits = Append(@, Len(g.ops)),
                             !.constByteSize = @ + WeightByteSize + BiasByteSize]

(***************************************************************************)
(* Graph::planAllocations (graph.cpp:312-408)                              *)
(***************************************************************************)
\* the walk `for (curAlloc = firstAlloc; curAlloc; curAlloc = curAlloc->next)`
RECURSIVE ChainFrom(_, _)
ChainFrom(allocs, cur) ==
  IF cur = NullPtr THEN <<>> ELSE <<cur>> \o ChainFrom(allocs, allocs[cur].next)

\* a fold that sums the sizes and keeps the lifetime of the first member
RECURSIVE ChunkFoldFirstLifetime(_, _, _, _)
ChunkFoldFirstLifetime(allocs, members, k, chunk) ==
  IF k > Len(members) THEN chunk
  ELSE ChunkFoldFirstLifetime(allocs, members, k + 1,
         [chunk EXCEPT !.byteSize = @ + allocs[members[k]].byteSize])

RECURSIVE ChunkFold(_, _, _, _)
ChunkFold(allocs, members, k, chunk) ==
  IF k > Len(members) THEN chunk
  ELSE LET a == allocs[members[k]]
       IN ChunkFold(allocs, members, k + 1,
                    [chunk EXCEPT !.byteSize  = @ + a.byteSize,
                                  !.firstOpID = Min(@, a.firstOpID),
                                  !.lastOpID  = Max(@, a.lastOpID)])

\* graph.cpp:332-345
ChunkOf(allocs, first) ==
  ChunkFold(allocs, ChainFrom(allocs, first), 1,
            [firstAlloc |-> first, byteSize |-> 0,
             firstOpID |-> allocs[first].firstOpID, lastOpID |-> allocs[first].lastOpID])

\* graph.cpp:326-348: one chunk per allocation without a prev, in tensorAllocs order
Chunks(allocs) ==
  LET heads == SelectSeq([i \in 1..Len(allocs) |-> i], LAMBDA i : allocs[i].prev = NullPtr)
  IN [k \in 1..Len(heads) |-> ChunkOf(allocs, heads[k])]

\* graph.cpp:351-352: std::sort by descending byteSize.  std::sort is not
\* stable, so every order of the chunks in which the sizes never increase
\* is a possible result.
SortedOrders(chunks) ==
  LET n == Len(chunks)
  IN {p \in [1..n -> 1..n] :
        /\ \A i, j \in 1..n : i # j => p[i] # p[j]
        /\ \A i \in 1..n : i < n => chunks[p[i]].byteSize >= chunks[p[i + 1]].byteSize}

\* a walk that keeps the first gap that fits
RECURSIVE FindOffsetFirstFit(_, _, _, _, _, _, _)
FindOffsetFirstFit(allocs, activeAllocs, chunk, k, curByteOffset, bestByteOffset, bestGapByteSize) ==
  IF k > Len(activeAllocs)
  THEN IF bestByteOffset = SIZE_MAX THEN curByteOffset ELSE bestByteOffset
  ELSE LET alloc == allocs[activeAllocs[k]]
       IN IF alloc.lastOpID < chunk.firstOpID \/ alloc.firstOpID > chunk.lastOpID
          THEN FindOffsetFirstFit(allocs, activeAllocs, chunk, k + 1,
                                  curByteOffset, bestByteOffset, bestGapByteSize)
          ELSE LET fits == /\ curByteOffset + chunk.byteSize <= alloc.byteOffset
                           /\ bestByteOffset = SIZE_MAX
                   cur2 == Max(curByteOffset, alloc.byteOffset + alloc.byteSize)
               IN IF fits
                  THEN FindOffsetFirstFit(allocs, activeAllocs, chunk, k + 1, cur2,
                                          curByteOffset, alloc.byteOffset - curByteOffset)
                  ELSE FindOffsetFirstFit(allocs, activeAllocs, chunk, k + 1, cur2,
                                          bestByteOffset, bestGapByteSize)

\* graph.cpp:361-385: the offset at which a chunk is placed
RECURSIVE FindOffset(_, _, _, _, _, _, _)
FindOffset(allocs, activeAllocs, chunk, k, curByteOffset, bestByteOffset, bestGapByteSize) ==
  IF k > Len(activeAllocs)
  THEN IF bestByteOffset = SIZE_MAX THEN curByteOffset ELSE bestByteOffset
  ELSE LET alloc == allocs[activeAllocs[k]]
       IN IF alloc.lastOpID < chunk.firstOpID \/ alloc.firstOpID > chunk.lastOpID
          THEN FindOffset(allocs, activeAllocs, chunk, k + 1,
                          curByteOffset, bestByteOffset, bestGapByteSize)
          ELSE LET fits == /\ curByteOffset + chunk.byteSize <= alloc.byteOffset
                           /\ alloc.byteOffset - curByteOffset < bestGapByteSize
                   cur2 == Max(curByteOffset, alloc.byteOffset + alloc.byteSize)
               IN IF fits
                  THEN FindOffset(allocs, activeAllocs, chunk, k + 1, cur2,
                                  curByteOffset, alloc.byteOffset - curByteOffset)
                  ELSE FindOffset(allocs, activeAllocs, chunk, k + 1, cur2,
                                  bestByteOffset, bestGapByteSize)

\* graph.cpp:392-394: std::upper_bound by byteOffset, then insert
InsertActive(allocs, activeAllocs, alloc) ==
  LET after == {k \in 1..Len(activeAllocs) :
                  allocs[alloc].byteOffset < allocs[activeAllocs[k]].byteOffset}
      it    == IF after = {} THEN Len(activeAllocs) + 1
               ELSE CHOOSE k \in after : \A m \in after : k <= m
  IN SubSeq(activeAllocs, 1, it - 1) \o <<alloc>> \o SubSeq(activeAllocs, it, Len(activeAllocs))

\* graph.cpp:387-397: the walk that gives the members of a chunk their offsets
RECURSIVE AssignChunk(_, _, _)
AssignChunk(st, alloc, bestByteOffset) ==
  IF alloc = NullPtr
  THEN [st EXCEPT !.end = bestByteOffset]
  ELSE LET a1 == [st.allocs EXCEPT ![alloc].byteOffset = bestByteOffset]
       IN AssignChunk([allocs |-> a1,
                       activeAllocs |-> InsertActive(a1, st.activeAllocs, alloc),
                       tensorScratchByteSize |-> st.tensorScratchByteSize,
                       end |-> st.end],
                      a1[alloc].next, bestByteOffset + a1[alloc].byteSize)

\* graph.cpp:359-400: the loop over the sorted chunks
RECURSIVE PlaceChunks(_, _, _, _)
PlaceChunks(st, chunks, order, k) ==
  IF k > Len(chunks) THEN st
  ELSE LET chunk == chunks[order[k]]
           best  == FindOffset(st.allocs, st.activeAllocs, chunk, 1, 0, SIZE_MAX, SIZE_MAX)
           st1   == AssignChunk(st, chunk.firstAlloc, best)
       IN PlaceChunks([st1 EXCEPT !.tensorScratchByteSize = Max(@, st1.end)],
                      chunks, order, k + 1)

RECURSIVE MaxOpScratchOf(_, _)
MaxOpScratchOf(opSeq, k) ==
  IF k > Len(opSeq) THEN 0 ELSE Max(opSeq[k].scratch, MaxOpScratchOf(opSeq, k + 1))

\* graph.cpp:402-405: the maximum is computed into a local variable that
\* hides the member, so the member keeps the value it had
PlannedOpScratchByteSize(member, opSeq) ==
  LET local == MaxOpScratchOf(opSeq, 1) IN member

\* Graph::planAllocations (graph.cpp:312-408) for one result of the sort
PlanAllocations(g, order) ==
  LET st == PlaceChunks([allocs |-> g.tensorAllocs, activeAllocs |-> <<>>,
                         tensorScratchByteSize |-> 0, end |-> 0],
                        Chunks(g.tensorAllocs), order, 1)
  IN [g EXCEPT !.tensorAllocs = st.allocs,
               !.tensorScratchByteSize = st.tensorScratchByteSize,
               !.opScratchByteSize = PlannedOpScratchByteSize(@, g.ops),
               !.dirty = FALSE]

\* `if (dirty) planAllocations();` (graph.cpp:425-426, 455-456)
PlanIfDirty(g, order) == IF g.dirty THEN PlanAllocations(g, order) ELSE g
PlanOrders(g) == IF g.dirty THEN SortedOrders(Chunks(g.tensorAllocs)) ELSE {<<>>}

(***************************************************************************)
(* The operations of Graph, one action each.  The caller passes as source  *)
(* ops only ops of the graph that have a destination tensor.  Once a call  *)
(* had undefined behaviour nothing more is modelled: the state records     *)
(* how that call ended and the run stops.                                  *)
(***************************************************************************)
Alive == ~ub
SrcOps == {i \in 0..(Len(ops) - 1) : ops[i + 1].kind # "OutputProcess"}
PostOps == {"None", "Pool", "Upsample"}

Called(op, name) == [op |-> op, name |-> name]

\* room for n more ops and TensorAllocs within the bounds of the model; on a
\* finalized graph every add fails and may leave a TensorAlloc behind
Room(n) ==
  IF finalized
  THEN Len(tensorAllocs) < MaxOrphans
  ELSE Len(ops) + n <= MaxOps /\ Len(tensorAllocs) + n <= MaxAllocs

\* only convolutions ask for op scratch; the other ops report 0
ScratchSizesOf(kind) == IF kind = "Conv" THEN OpScratchSizes ELSE {0}

\* the outcomes to enumerate for a call: those of undefined behaviour when
\* one of the map lookups of the call can yield a null pointer
UBChoices(name, srcOps) ==
  IF \/ name # "" /\ (MapGet(weights, WeightKey(name)) = NullPtr
                      \/ MapGet(weights, BiasKey(name)) = NullPtr)
     \/ \E srcOp \in srcOps : MapGet(tensorAllocsByOp, srcOp) = NullPtr
  THEN UBOutcomes
  ELSE {"proceed"}

\* the destination size and op scratch of the pool or upsample op that a
\* split convolution adds
SecondOps(postOp) ==
  IF postOp # "None" /\ postOp \notin fusedPostOps
  THEN ByteSizes \X ScratchSizesOf("Pool")
  ELSE {<<1, 0>>}

AddInputProcess ==
  /\ Alive /\ Room(1)
  /\ \E size \in ByteSizes, s \in ScratchSizesOf("InputProcess") :
       SetGraph(AddInputProcessG(G, "input", size, s))
  /\ call' = Called("addInputProcess", "input")
  /\ ret' = 0
  /\ UNCHANGED <<tensorLayout, fusedPostOps, nonGraphVars>>

AddOutputProcess ==
  /\ Alive /\ Room(1)
  /\ \E srcOp \in SrcOps, s \in ScratchSizesOf("OutputProcess") :
     \E ubo \in UBChoices("", {srcOp}) :
       SetGraph(AddOutputProcessG(G, "output", srcOp, s, ubo))
  /\ call' = Called("addOutputProcess", "output")
  /\ ret' = 0
  /\ UNCHANGED <<tensorLayout, fusedPostOps, nonGraphVars>>

AddConv ==
  /\ Alive /\ Room(2)
  /\ \E name \in ConvNames, srcOp \in SrcOps, postOp \in PostOps,
        size \in ByteSizes, s \in ScratchSizesOf("Conv") :
     \E second \in SecondOps(postOp), ubo \in UBChoices(name, {srcOp}) :
       /\ SetGraph(AddConvG(G, name, srcOp, postOp, <<size, second[1]>>,
                            <<s, second[2]>>, ubo))
       /\ call' = [op |-> "addConv", name |-> name, srcOp |-> srcOp,
                   postOp |-> postOp]
       /\ ret' = IF err' = "none" THEN AddConvReturned(G, postOp) ELSE 0
  /\ UNCHANGED <<tensorLayout, fusedPostOps, nonGraphVars>>

AddConcatConv ==
  /\ Alive /\ Room(1)
  /\ \E name \in ConvNames, src1Op \in SrcOps, src2Op \in SrcOps,
        size \in ByteSizes, s \in ScratchSizesOf("Conv") :
     \E ubo \in UBChoices(name, {src1Op, src2Op}) :
       /\ SetGraph(AddConcatConvG(G, name, src1Op, src2Op, size, s, ubo))
       /\ call' = Called("addConcatConv", name)
  /\ ret' = 0
  /\ UNCHANGED <<tensorLayout, fusedPostOps, nonGraphVars>>

AddPool ==
  /\ Alive /\ Room(1)
  /\ \E srcOp \in SrcOps, size \in ByteSizes, s \in ScratchSizesOf("Pool") :
     \E ubo \in UBChoices("", {srcOp}) :
       SetGraph(AddPoolG(G, "pool", srcOp, size, s, ubo))
  /\ call' = Called("addPool", "pool")
  /\ ret' = 0
  /\ UNCHANGED <<tensorLayout, fusedPostOps, nonGraphVars>>

AddUpsample ==
  /\ Alive /\ Room(1)
  /\ \E srcOp \in SrcOps, size \in ByteSizes, s \in ScratchSizesOf("Upsample") :
     \E ubo \in UBChoices("", {srcOp}) :
       SetGraph(AddUpsampleG(G, "upsample", srcOp, size, s, ubo))
  /\ call' = Called("addUpsample", "upsample")
  /\ ret' = 0
  /\ UNCHANGED <<tensorLayout, fusedPostOps, nonGraphVars>>

\* Graph::getScratchAlignedSize (graph.cpp:423-428)
GetScratchAlignedSize ==
  /\ Alive
  /\ \E order \in PlanOrders(G) :
       LET g1 == PlanIfDirty(G, order)
       IN /\ SetGraph(g1)
          /\ ret' = g1.opScratchByteSize + g1.tensorScratchByteSize
  /\ call' = Called("getScratchAlignedSize", "")
  /\ UNCHANGED <<tensorLayout, fusedPostOps, nonGraphVars>>

\* Graph::setScratch (graph.cpp:430-433).  The caller sizes the buffer by
\* getScratchAlignedSize, so it binds one only to a planned graph
\* (unet_filter.cpp:434, 463-466).
SetScratch ==
  /\ Alive
  /\ ~scratch /\ ~dirty /\ ops # <<>>
  /\ SetGraph([G EXCEPT !.scratch = TRUE])
  /\ call' = Called("setScratch", "")
  /\ ret' = 0
  /\ UNCHANGED <<tensorLayout, fusedPostOps, nonGraphVars>>

\* Graph::cleanup (graph.cpp:435-440)
Cleanup(g) ==
  [g EXCEPT !.lazyInits = <<>>, !.tensorAllocsByOp = EmptyMap, !.tensorAllocs = <<>>]

\* Graph::clear (graph.cpp:442-451)
ClearG(g) ==
  [Cleanup(g) EXCEPT !.ops = <<>>, !.scratch = FALSE, !.opScratchByteSize = 0,
                     !.tensorScratchByteSize = 0, !.constByteSize = 0, !.dirty = FALSE]

Clear ==
  /\ Alive
  /\ SetGraph(ClearG(G))
  /\ call' = Called("clear", "")
  /\ ret' = 0
  /\ UNCHANGED <<tensorLayout, fusedPostOps, nonGraphVars>>

\* graph.cpp:458-459: scratch->newTensor for every TensorAlloc, in order
NewTensors(g) ==
  [k \in 1..Len(g.tensorAllocs) |->
     [e |-> "newTensor", alloc |-> k,
      byteOffset |-> g.opScratchByteSize + g.tensorAllocs[k].byteOffset,
      byteSize |-> g.tensorAllocs[k].byteSize]]

\* lazy initializers that run last to first
LazyInitCallsReversed(g) ==
  [k \in 1..Len(g.lazyInits) |->
     [e |-> "lazyInit", op |-> g.lazyInits[Len(g.lazyInits) + 1 - k]]]

\* graph.cpp:461-462: every lazy initializer, in order
LazyInitCalls(g) ==
  [k \in 1..Len(g.lazyInits) |-> [e |-> "lazyInit", op |-> g.lazyInits[k]]]

\* graph.cpp:465-469: setScratch and finalize of every op, in order
OpFinalizeCalls(g) ==
  [k \in 1..(2 * Len(g.ops)) |->
     IF k % 2 = 1 THEN [e |-> "setScratch", op |-> (k - 1) \div 2]
     ELSE [e |-> "finalize", op |-> (k - 2) \div 2]]

\* Graph::finalize (graph.cpp:453-475)
FinalizeG(g, order) ==
  LET g1 == PlanIfDirty(g, order)
      planned == IF g.dirty THEN <<[e |-> "planAllocations"]>> ELSE <<>>
      g2 == [g1 EXCEPT !.lazyInits = <<>>,
                       !.trace = planned \o NewTensors(g1) \o LazyInitCalls(g1)
                                   \o OpFinalizeCalls(g1)]
  IN [Cleanup(g2) EXCEPT !.weights = EmptyMap, !.finalized = TRUE]

\* the caller binds a scratch buffer before it finalizes (unet_filter.cpp:466-471)
Finalize ==
  /\ Alive
  /\ scratch
  /\ \E order \in PlanOrders(G) : SetGraph(FinalizeG(G, order))
  /\ call' = Called("finalize", "")
  /\ ret' = 0
  /\ UNCHANGED <<tensorLayout, fusedPostOps, nonGraphVars>>

\* Progress::update raises this when the progress monitor asked to stop
UpdateRaises == "Cancelled"

\* a run that reports each op before it submits it
RunCallsUpdateFirst(g) ==
  [k \in 1..(2 * Len(g.ops)) |->
     IF k % 2 = 0 THEN [e |-> "submit", op |-> (k - 2) \div 2]
     ELSE [e |-> "update", n |-> 1]]

\* graph.cpp:479-502: submit of every op, each followed by progress.update
RunCalls(g) ==
  [k \in 1..(2 * Len(g.ops)) |->
     IF k % 2 = 1 THEN [e |-> "submit", op |-> (k - 1) \div 2]
     ELSE [e |-> "update", n |-> 1]]

\* Graph::run (graph.cpp:477-503).  at is the update that raised, 0 when none
\* did; nothing in run catches it.
RunG(g, at) ==
  [g EXCEPT !.trace = IF at = 0 THEN RunCalls(g) ELSE SubSeq(RunCalls(g), 1, 2 * at),
            !.err = IF at = 0 THEN "none" ELSE UpdateRaises]

\* the filter runs the graphs it has finalized (unet_filter.cpp:471, 181)
Run ==
  /\ Alive
  /\ finalized
  /\ \E at \in 0..Len(ops) : SetGraph(RunG(G, at))
  /\ call' = Called("run", "")
  /\ ret' = 0
  /\ UNCHANGED <<tensorLayout, fusedPostOps, nonGraphVars>>

(***************************************************************************)
(* The graph after construction (graph.cpp:15-17, graph.h:112-116).        *)
(***************************************************************************)
GraphInit ==
  /\ ops = <<>>
  /\ scratch = FALSE
  /\ opScratchByteSize = 0
  /\ tensorScratchByteSize = 0
  /\ constByteSize = 0
  /\ dirty = FALSE
  /\ finalized = FALSE
  /\ tensorAllocs = <<>>
  /\ tensorAllocsByOp = EmptyMap
  /\ lazyInits = <<>>
  /\ trace = <<>>
  /\ weights \in {WeightMap(r[1], r[2]) : r \in WeightBlobs}
  /\ tensorLayout \in {"hwc", "chw"}
  /\ fusedPostOps \in {{}, {"Pool", "Upsample"}}
  /\ call = Called("Graph", "")
  /\ err = "none"
  /\ ret = 0
  /\ ub = FALSE

\* an image that is not set, and one that is: its format, size and buffer
NoImage == [null |-> TRUE]
Image(format, h, w, buf) == [null |-> FALSE, format |-> format, H |-> h, W |-> w, buf |-> buf]
\* no model (unet_filter.cpp:265-272, 500-512)
NoModel == [built |-> FALSE]
\* an empty Data, which converts to false
NoData == ""
\* the quiet NaN that inputScale starts with
NaN == "nan"

\* no buildModel call yet
NoBuild ==
  [op |-> "none", budget |-> 0, ret |-> "none", err |-> "none", cause |-> "none",
   aeSize |-> 0, supported |-> <<>>, totalMemoryByteSize |-> 0]

\* the filter before init created the instances (unet_filter.cpp:9-13)
BuildIdle ==
  /\ instanceGraphs = <<>> /\ scratchBuffers = <<>> /\ imageCopy = FALSE
  /\ bcall = NoBuild

\* the filter as constructed with no parameter set, for the specifications that
\* do not use it (unet_filter.cpp:9-13)
FilterIdle ==
  /\ BuildIdle
  /\ H = 0 /\ W = 0 /\ overlap = 0 /\ alignment = 1 /\ numEngines = 1
  /\ tileH = 0 /\ tileW = 0 /\ tileCountH = 1 /\ tileCountW = 1
  /\ ipc = "idle" /\ fallback = FALSE /\ tiles = <<>>
  /\ color = NoImage /\ albedo = NoImage /\ normal = NoImage /\ output = NoImage
  /\ hdr = FALSE /\ srgb = FALSE /\ directional = FALSE /\ cleanAux = FALSE
  /\ progressFunc = FALSE
  /\ userWeightsBlob = NoData /\ inputScale = NaN
  /\ inplace = FALSE /\ fDirty = TRUE /\ dirtyParam = TRUE
  /\ weightsBlob = NoData
  /\ instances = FALSE /\ autoexposure = FALSE /\ outputTemp = FALSE
  /\ submitted = <<>>
  /\ fcall = [op |-> "UNetFilter", name |-> ""] /\ ferr = "none" /\ warned = FALSE /\ fmsg = ""
  /\ model = NoModel /\ outputDst = "" /\ commitWaits = 0

(***************************************************************************)
(* Graph::reorderWeight and Graph::reorderBias (graph.cpp:505-588).        *)
(* A tensor has a data type, a layout, logical and padded dimensions and   *)
(* one element per index of its padded dimensions; an index is what the    *)
(* accessor is called with, <<o, i, h, w>> or <<x>>.  An element is a      *)
(* number together with the type it is stored as.                          *)
(***************************************************************************)
MaxChannels == 2
MaxPaddedChannels == 3
\* H and W of the convolution kernels
KernelDims == <<1, 2>>

DataTypes == {"half", "float"}
WeightLayouts == {"oihw", "OIhw8i8o", "OIhw16i16o", "OIhw2o8i8o2i", "OIhw8i16o2i", "ohwi"}

Value(type, v) == [type |-> type, v |-> v]
\* what the mapped memory of a tensor created for writing holds
Indeterminate(type) == Value(type, -1)

IndexSet(paddedDims) ==
  IF Len(paddedDims) = 4
  THEN (0..(paddedDims[1] - 1)) \X (0..(paddedDims[2] - 1)) \X
       (0..(paddedDims[3] - 1)) \X (0..(paddedDims[4] - 1))
  ELSE {<<x>> : x \in 0..(paddedDims[1] - 1)}

\* the element a source tensor holds at an index: not zero, and different from
\* the element at every other index
SourceValue(idx, dims) ==
  IF Len(dims) = 4
  THEN ((idx[1] * dims[2] + idx[2]) * dims[3] + idx[3]) * dims[4] + idx[4] + 1
  ELSE idx[1] + 1

\* a tensor parsed from the weight blob: in a canonical layout, not padded
SourceTensor(dataType, layout, dims) ==
  [dataType |-> dataType, layout |-> layout, dims |-> dims, paddedDims |-> dims,
   data |-> [idx \in IndexSet(dims) |-> Value(dataType, SourceValue(idx, dims))]]

\* a tensor the engine has just created, mapped with Access::WriteDiscard
\* (graph.cpp:113-115, 119-120)
NewTensor(dataType, layout, dims, paddedDims) ==
  [dataType |-> dataType, layout |-> layout, dims |-> dims, paddedDims |-> paddedDims,
   data |-> [idx \in IndexSet(paddedDims) |-> Indeterminate(dataType)]]

\* the extents of the accessor of a tensor (O, I, H, W or X): its padded
\* dimensions
AccessorDims(t) == t.paddedDims

\* DstT(value): a half converts to the float of the same value, or is copied
Cast(value, dstT) == Value(dstT, value.v)

\* the template arguments for which reorderWeight instantiates
\* tryReorderWeight (graph.cpp:543-553): <<SrcT, DstT, srcLayout, dstLayout>>
SupportedWeightReorders ==
  {<<"half", t, "oihw", l>> : t \in DataTypes,
                               l \in {"oihw", "OIhw8i8o", "OIhw16i16o", "ohwi"}} \cup
  {<<"half", "half", "oihw", l>> : l \in {"OIhw2o8i8o2i", "OIhw8i16o2i"}}

\* those of tryReorderBias (graph.cpp:582-584): <<SrcT, DstT>>
SupportedBiasReorders == {<<"half", "half">>, <<"half", "float">>}

\* a loop body that reads the source from its input channel 0
ReorderedValueFromZero(src, a, o, i, h, w) ==
  IF o < AccessorDims(src)[1] /\ i < a.srcI
  THEN src.data[<<o, i, h, w>>]
  ELSE Value(src.dataType, 0)

\* graph.cpp:525-529: the value the loop body has for (o, i, h, w)
ReorderedValue(src, a, o, i, h, w) ==
  IF o < AccessorDims(src)[1] /\ i < a.srcI
  THEN src.data[<<o, a.srcBeginI + i, h, w>>]
  ELSE Value(src.dataType, 0)

\* graph.cpp:517-534: the four loops over o, i, h, w as one, k counting the
\* iterations; data are the elements of dst and dims the extents of dstAcc
RECURSIVE ReorderWeightLoop(_, _, _, _, _, _)
ReorderWeightLoop(src, dstT, dims, a, data, k) ==
  IF k >= dims[1] * a.dstI * dims[3] * dims[4]
  THEN data
  ELSE LET w == k % dims[4]
           h == (k \div dims[4]) % dims[3]
           i == (k \div (dims[4] * dims[3])) % a.dstI
           o == k \div (dims[4] * dims[3] * a.dstI)
       IN ReorderWeightLoop(src, dstT, dims, a,
            [data EXCEPT ![<<o, a.dstBeginI + i, h, w>>] =
               Cast(ReorderedValue(src, a, o, i, h, w), dstT)],
            k + 1)

\* Graph::reorderWeight (graph.cpp:541-557) with tryReorderWeight
\* (graph.cpp:505-539): dst as the call leaves it and the error it throws
reorderWeight(src, dst, a) ==
  IF <<src.dataType, dst.dataType, src.layout, dst.layout>> \in SupportedWeightReorders
  THEN [dst |-> [dst EXCEPT !.data =
                   ReorderWeightLoop(src, dst.dataType, AccessorDims(dst), a, @, 0)],
        err |-> "none"]
  ELSE [dst |-> dst, err |-> "logic_error"]

\* graph.cpp:572-576: the two loops of tryReorderBias, x counting from 0
RECURSIVE ReorderBiasLoop(_, _, _, _)
ReorderBiasLoop(src, dstT, data, x) ==
  IF x >= Len(data) THEN data
  ELSE ReorderBiasLoop(src, dstT,
         [data EXCEPT ![x + 1] = IF x < src.dims[1]
                                 THEN Cast(src.data[<<x>>], dstT)
                                 ELSE Value(dstT, 0)],
         x + 1)

\* Graph::reorderBias (graph.cpp:579-588) with tryReorderBias (559-577)
reorderBias(src, dst) ==
  IF /\ src.layout = "x" /\ dst.layout = "x"
     /\ <<src.dataType, dst.dataType>> \in SupportedBiasReorders
  THEN LET X == AccessorDims(dst)[1]
           written == ReorderBiasLoop(src, dst.dataType,
                                      [x \in 1..X |-> dst.data[<<x - 1>>]], 0)
       IN [dst |-> [dst EXCEPT !.data = [idx \in DOMAIN @ |-> written[idx[1] + 1]]],
           err |-> "none"]
  ELSE [dst |-> dst, err |-> "logic_error"]

\* the slices of input channels a caller may pass: within the padded input
\* channels of its tensor (the assertions of graph.cpp:508-509)
Slices(paddedI) ==
  {s \in (0..paddedI) \X (0..paddedI) : s[1] + s[2] <= paddedI}

NoTensor == [null |-> TRUE]
NoSlice == [srcBeginI |-> 0, srcI |-> 0, dstBeginI |-> 0, dstI |-> 0]

\* no reorder is under way
ReorderIdle ==
  /\ srcTensor = NoTensor /\ dstTensor = NoTensor
  /\ reorderArgs = NoSlice
  /\ rcall = "none" /\ rerr = "none"

\* src and dst of a reorderWeight, as addConv and addConcatConv build them
\* (graph.cpp:84-94, 113-115), in every data type and layout
WeightTensors ==
  /\ \E t \in DataTypes, l \in {"oihw", "ohwi"}, O \in 1..MaxChannels, I \in 1..MaxChannels :
       srcTensor = SourceTensor(t, l, <<O, I, KernelDims[1], KernelDims[2]>>)
  /\ \E t \in DataTypes, l \in WeightLayouts,
        O \in 1..MaxPaddedChannels, I \in 1..MaxPaddedChannels :
       dstTensor = NewTensor(t, l, srcTensor.dims,
                             <<O, I, KernelDims[1], KernelDims[2]>>)
  /\ \E s \in Slices(srcTensor.paddedDims[2]), d \in Slices(dstTensor.paddedDims[2]) :
       reorderArgs = [srcBeginI |-> s[1], srcI |-> s[2], dstBeginI |-> d[1], dstI |-> d[2]]

\* src and dst of a reorderBias (graph.cpp:96-99, 119-120): dst is at least as
\* long as src
BiasTensors ==
  /\ \E t \in DataTypes, X \in 1..MaxChannels :
       srcTensor = SourceTensor(t, "x", <<X>>)
  /\ \E t \in DataTypes, X \in 1..MaxPaddedChannels :
       /\ X >= srcTensor.dims[1]
       /\ dstTensor = NewTensor(t, "x", srcTensor.dims, <<X>>)
  /\ reorderArgs = NoSlice

ReorderInit ==
  /\ GraphInit
  /\ weights = WeightMap(4, 1) /\ tensorLayout = "hwc" /\ fusedPostOps = {}
  /\ FilterIdle
  /\ WeightTensors \/ BiasTensors
  /\ rcall = "none" /\ rerr = "none"

\* lazyInits call reorderWeight on the weight tensors (graph.cpp:114-115)
ReorderWeight ==
  /\ rcall = "none"
  /\ Len(srcTensor.dims) = 4
  /\ LET r == reorderWeight(srcTensor, dstTensor, reorderArgs)
     IN dstTensor' = r.dst /\ rerr' = r.err
  /\ rcall' = "reorderWeight"
  /\ UNCHANGED <<graphVars, tileVars, paramVars, filterVars, buildVars, srcTensor, reorderArgs>>

\* lazyInits call reorderBias on the bias tensors (graph.cpp:120)
ReorderBias ==
  /\ rcall = "none"
  /\ Len(srcTensor.dims) = 1
  /\ LET r == reorderBias(srcTensor, dstTensor)
     IN dstTensor' = r.dst /\ rerr' = r.err
  /\ rcall' = "reorderBias"
  /\ UNCHANGED <<graphVars, tileVars, paramVars, filterVars, buildVars, srcTensor, reorderArgs>>

ReorderNext ==
  \/ ReorderWeight
  \/ ReorderBias

ReorderSpec == ReorderInit /\ [][ReorderNext]_vars

Init == GraphInit /\ FilterIdle /\ ReorderIdle

Next ==
  \/ AddInputProcess
  \/ AddOutputProcess
  \/ AddConv
  \/ AddConcatConv
  \/ AddPool
  \/ AddUpsample
  \/ GetScratchAlignedSize
  \/ SetScratch
  \/ Clear
  \/ Finalize

Spec == Init /\ [][Next]_vars

\* the builder with the adds of convolutions, pools and upsamples only
ConvNext ==
  \/ AddInputProcess
  \/ AddConv
  \/ AddPool
  \/ AddUpsample

ConvSpec == Init /\ [][ConvNext]_vars

\* building, finalizing and running a graph without clearing it
RunNext ==
  \/ AddInputProcess
  \/ AddOutputProcess
  \/ AddConv
  \/ GetScratchAlignedSize
  \/ SetScratch
  \/ Finalize
  \/ Run

RunSpec == Init /\ [][RunNext]_vars

(***************************************************************************)
(* The planner on allocation records as the adds can leave them: up to     *)
(* three records with one chain at most, and the records of the example.   *)
(***************************************************************************)
PlanByteSizes == {1, 2, 3}
PlanLifetimes == {<<0, 0>>, <<0, 2>>, <<1, 2>>, <<2, 2>>}
PlanCounts == 1..3

\* the chains among n records: none, or one sequence of two or more records
ChainPatterns(n) ==
  {<<>>} \cup
  {c \in UNION {[1..m -> 1..n] : m \in 2..n} : \A i, j \in DOMAIN c : i # j => c[i] # c[j]}

PositionIn(c, a) == IF \E i \in DOMAIN c : c[i] = a THEN CHOOSE i \in DOMAIN c : c[i] = a ELSE 0

\* records of the given sizes and lifetimes, linked into the chain c
LinkedAllocs(sizes, lifetimes, c) ==
  [a \in 1..Len(sizes) |->
     LET i == PositionIn(c, a)
     IN [TensorAlloc(sizes[a], lifetimes[a][1]) EXCEPT
           !.lastOpID = lifetimes[a][2],
           !.prev = IF i > 1 THEN c[i - 1] ELSE NullPtr,
           !.next = IF i > 0 /\ i < Len(c) THEN c[i + 1] ELSE NullPtr]]

\* three chained records of 50, 70 and 30 bytes that live from op 0 to op 10,
\* and a record of 40 bytes that lives from op 5 to op 9
ChainExample ==
  LinkedAllocs(<<50, 70, 30, 40>>, <<<<0, 10>>, <<0, 10>>, <<0, 10>>, <<5, 9>>>>, <<1, 2, 3>>)

\* records of 30, 20, 10, 8 and 5 bytes: the last lives at op 2 only, beside
\* the second and the fourth, which leave a gap of 30 and a gap of 10 bytes
GapExample ==
  LinkedAllocs(<<30, 20, 10, 8, 5>>,
               <<<<0, 0>>, <<0, 2>>, <<0, 0>>, <<0, 2>>, <<2, 2>>>>, <<>>)

\* the same with three records of 10 bytes, which can leave two gaps of 10 bytes
TieExample ==
  LinkedAllocs(<<10, 10, 10, 8, 5>>,
               <<<<0, 0>>, <<0, 2>>, <<0, 0>>, <<0, 2>>, <<2, 2>>>>, <<>>)

RECURSIVE LastOpOf(_, _)
LastOpOf(allocs, k) ==
  IF k > Len(allocs) THEN 0 ELSE Max(allocs[k].lastOpID, LastOpOf(allocs, k + 1))

PlanInit ==
  /\ scratch = FALSE /\ finalized = FALSE
  /\ opScratchByteSize = 0 /\ tensorScratchByteSize = 0 /\ constByteSize = 0
  /\ tensorAllocsByOp = EmptyMap /\ lazyInits = <<>> /\ trace = <<>>
  /\ weights = WeightMap(4, 1) /\ tensorLayout = "chw" /\ fusedPostOps = {}
  /\ call = Called("Graph", "") /\ err = "none" /\ ret = 0 /\ ub = FALSE
  /\ FilterIdle /\ ReorderIdle
  /\ \/ tensorAllocs \in {ChainExample, GapExample, TieExample}
     \/ \E n \in PlanCounts :
          \E sizes \in [1..n -> PlanByteSizes], lifetimes \in [1..n -> PlanLifetimes],
             c \in ChainPatterns(n) :
            tensorAllocs = LinkedAllocs(sizes, lifetimes, c)
  /\ ops = [i \in 1..(LastOpOf(tensorAllocs, 1) + 1) |-> Op("Conv", "conv", <<>>, 0)]
  /\ dirty = TRUE

PlanSpec == PlanInit /\ [][GetScratchAlignedSize]_vars

(***************************************************************************)
(* UNetFilter: parameters, commit, init and its tile planner, execute.     *)
(***************************************************************************)
MaxImageSize == 9
MaxOverlap == 2
MaxAlignment == 3
MaxEngines == 2
MaxTileCount == 10

ImageSizes == 0..MaxImageSize
Overlaps == 0..MaxOverlap
Alignments == 1..MaxAlignment
EngineCounts == 1..MaxEngines

FCalled(op, name) == [op |-> op, name |-> name]
Has(image) == ~image.null
overlaps(a, b) == a.buf = b.buf

\* int division of C++ truncates toward zero
IntDiv(a, b) == IF a >= 0 THEN a \div b ELSE -((-a) \div b)
ceil_div(a, b) == IntDiv(a + b - 1, b)
round_up(a, b) == ceil_div(a, b) * b

\* Filter::setParam and Filter::removeParam on a Data parameter: the new value
\* and whether the parameters became dirty
SetParamData(dst, src) == [value |-> src, dirtyParam |-> dirtyParam \/ dst # src]
RemoveParamData(dst) == [value |-> NoData, dirtyParam |-> dirtyParam \/ dst # NoData]

\* a setter that marks the filter dirty only for a name it knows
SetterDoneKnownOnly(op, name, known) ==
  /\ warned' = ~known
  /\ fDirty' = (fDirty \/ known)
  /\ fcall' = FCalled(op, name)
  /\ ferr' = "none" /\ fmsg' = ""
  /\ commitWaits' = 0
  /\ UNCHANGED <<graphVars, reorderVars, buildVars, tileVars, paramVars, inplace, weightsBlob, instances,
                 autoexposure, outputTemp, submitted, model, outputDst>>

\* what every setter does besides its own assignment (unet_filter.cpp:20-22 and alike)
SetterDone(op, name, known) ==
  /\ warned' = ~known
  /\ fDirty' = TRUE
  /\ fcall' = FCalled(op, name)
  /\ ferr' = "none" /\ fmsg' = ""
  /\ commitWaits' = 0
  /\ UNCHANGED <<graphVars, reorderVars, buildVars, tileVars, paramVars, inplace, weightsBlob, instances,
                 autoexposure, outputTemp, submitted, model, outputDst>>

DataNames == {"weights", "bogus"}
FloatNames == {"inputScale", "hdrScale", "bogus"}
DataValues == {NoData, "user"}
FloatValues == {NaN, "0.5"}

\* unet_filter.cpp:15-23
SetData ==
  /\ ipc = "idle"
  /\ \E name \in DataNames, data \in DataValues :
       /\ IF name = "weights"
          THEN /\ userWeightsBlob' = SetParamData(userWeightsBlob, data).value
               /\ dirtyParam' = SetParamData(userWeightsBlob, data).dirtyParam
          ELSE UNCHANGED <<userWeightsBlob, dirtyParam>>
       /\ SetterDone("setData", name, name = "weights")
  /\ UNCHANGED inputScale

\* unet_filter.cpp:25-33
UpdateData ==
  /\ ipc = "idle"
  /\ \E name \in DataNames :
       /\ dirtyParam' = IF name = "weights"
                        THEN dirtyParam \/ userWeightsBlob # NoData
                        ELSE dirtyParam
       /\ SetterDone("updateData", name, name = "weights")
  /\ UNCHANGED <<userWeightsBlob, inputScale>>

\* unet_filter.cpp:35-43
UnsetData ==
  /\ ipc = "idle"
  /\ \E name \in DataNames :
       /\ IF name = "weights"
          THEN /\ userWeightsBlob' = RemoveParamData(userWeightsBlob).value
               /\ dirtyParam' = RemoveParamData(userWeightsBlob).dirtyParam
          ELSE UNCHANGED <<userWeightsBlob, dirtyParam>>
       /\ SetterDone("unsetData", name, name = "weights")
  /\ UNCHANGED inputScale

\* unet_filter.cpp:45-53
SetFloat ==
  /\ ipc = "idle"
  /\ \E name \in FloatNames, value \in FloatValues :
       /\ inputScale' = IF name \in {"inputScale", "hdrScale"} THEN value ELSE inputScale
       /\ SetterDone("setFloat", name, name \in {"inputScale", "hdrScale"})
  /\ UNCHANGED <<userWeightsBlob, dirtyParam>>

\* a validation that lets hdr and srgb through together
checkParamsHdrSrgb ==
  LET inputs == {i \in {color, albedo, normal} : Has(i)}
  IN IF inputs = {} THEN "input image not specified"
     ELSE IF ~Has(output) THEN "output image not specified"
     ELSE IF /\ \E i \in inputs : i.format # "Float3"
             /\ \E i \in inputs : i.format # "Half3" THEN "unsupported input image format"
     ELSE IF output.format # "Float3" /\ output.format # "Half3"
          THEN "unsupported output image format"
     ELSE IF \E i \in inputs : i.W # output.W \/ i.H # output.H THEN "image size mismatch"
     ELSE IF directional /\ (hdr \/ srgb)
          THEN "directional and hdr/srgb modes cannot be enabled at the same time"
     ELSE "none"

\* unet_filter.cpp:274-300: the message of the InvalidOperation checkParams
\* raises, "none" when it returns
checkParams ==
  LET inputs == {i \in {color, albedo, normal} : Has(i)}
  IN IF inputs = {} THEN "input image not specified"
     ELSE IF ~Has(output) THEN "output image not specified"
     ELSE IF /\ \E i \in inputs : i.format # "Float3"
             /\ \E i \in inputs : i.format # "Half3" THEN "unsupported input image format"
     ELSE IF output.format # "Float3" /\ output.format # "Half3"
          THEN "unsupported output image format"
     ELSE IF \E i \in inputs : i.W # output.W \/ i.H # output.H THEN "image size mismatch"
     ELSE IF directional /\ (hdr \/ srgb)
          THEN "directional and hdr/srgb modes cannot be enabled at the same time"
     ELSE IF hdr /\ srgb THEN "hdr and srgb modes cannot be enabled at the same time"
     ELSE "none"

\* the built-in blobs, all compiled in
weightsBlobs == [n \in {"ldr", "hdr", "dir", "ldr_alb", "hdr_alb", "ldr_alb_nrm",
                       "hdr_alb_nrm", "ldr_calb_cnrm", "hdr_calb_cnrm", "alb", "nrm"} |-> n]

Thrown(e, msg) == [blob |-> NoData, err |-> e, msg |-> msg]

\* unet_filter.cpp:313-364: the blob getWeights returns, or the error it raises
getWeights ==
  LET selected ==
        IF Has(color)
        THEN IF ~Has(albedo) /\ ~Has(normal)
             THEN [blob |-> IF directional THEN weightsBlobs["dir"]
                            ELSE IF hdr THEN weightsBlobs["hdr"] ELSE weightsBlobs["ldr"],
                   err |-> "none", msg |-> ""]
             ELSE IF Has(albedo) /\ ~Has(normal)
             THEN [blob |-> IF hdr THEN weightsBlobs["hdr_alb"] ELSE weightsBlobs["ldr_alb"],
                   err |-> "none", msg |-> ""]
             ELSE IF Has(albedo) /\ Has(normal)
             THEN [blob |-> IF cleanAux
                            THEN IF hdr THEN weightsBlobs["hdr_calb_cnrm"]
                                 ELSE weightsBlobs["ldr_calb_cnrm"]
                            ELSE IF hdr THEN weightsBlobs["hdr_alb_nrm"]
                                 ELSE weightsBlobs["ldr_alb_nrm"],
                   err |-> "none", msg |-> ""]
             ELSE [blob |-> NoData, err |-> "none", msg |-> ""]
        ELSE IF Has(albedo) /\ ~Has(normal)
             THEN IF hdr THEN Thrown("InvalidOperation",
                                        "hdr mode is not supported for albedo filtering")
                  ELSE [blob |-> weightsBlobs["alb"], err |-> "none", msg |-> ""]
             ELSE IF ~Has(albedo) /\ Has(normal)
             THEN IF hdr \/ srgb
                  THEN Thrown("InvalidOperation",
                              "hdr and srgb modes are not supported for normal filtering")
                  ELSE [blob |-> weightsBlobs["nrm"], err |-> "none", msg |-> ""]
             ELSE Thrown("InvalidOperation", "invalid combination of input features")
      overridden == IF userWeightsBlob # NoData THEN userWeightsBlob ELSE selected.blob
  IN IF selected.err # "none" THEN selected
     ELSE IF overridden = NoData
          THEN Thrown("InvalidOperation", "unsupported combination of input features")
     ELSE [blob |-> overridden, err |-> "none", msg |-> ""]

\* a minimum tile size of twice the overlap
minTileSizeTwoOverlaps == 2 * overlap

\* unet_filter.cpp:221
minTileSize == 3 * overlap

\* unet_filter.cpp:236 and 241: the tile size for a number of tiles along one axis
DividedTileSize(size, count) ==
  Max(round_up(ceil_div(size - 2 * overlap, count), alignment) + 2 * overlap, minTileSize)

\* a final count that ignores the overlap
FinalTileCountNoOverlap(size, tile) ==
  IF size > tile THEN ceil_div(size, tile) ELSE 1

\* unet_filter.cpp:253-254
FinalTileCount(size, tile) ==
  IF size > tile THEN ceil_div(size - 2 * overlap, tile - 2 * overlap) ELSE 1

\* buildModel returns true at once for an empty image (unet_filter.cpp:369-371);
\* otherwise whether the model is supported and fits is up to the device
BuildModelResults == IF H <= 0 \/ W <= 0 THEN {TRUE} ELSE BOOLEAN

\* the first operand of the loop condition of unet_filter.cpp:231
EnginesUneven == (tileCountH * tileCountW) % numEngines # 0

\* the loop body is entered: the tile count is uneven or buildModel returned false
BodyEntered == ipc = "loop" /\ (EnginesUneven \/ FALSE \in BuildModelResults)

\* unet_filter.cpp:265-272, and the Graphs of the instances with their blob
FilterCleanup ==
  /\ instances' = FALSE
  /\ autoexposure' = FALSE
  /\ outputTemp' = FALSE
  /\ model' = NoModel

\* commit raises from init: unet_filter.cpp:85-86 are not reached
InitThrows(e, msg) ==
  /\ ferr' = e
  /\ fmsg' = msg
  /\ ipc' = "idle"
  /\ UNCHANGED fDirty

\* what the ops and the tensors of an instance graph need of the scratch buffer,
\* and the scratch autoexposure asks for
GraphNeeds == {[op |-> 0, tensor |-> 2], [op |-> 1, tensor |-> 2]}
AutoexposureSizes == {1}

\* graph->getScratchAlignedSize() (unet_filter.cpp:434, graph.cpp:423-428, 402-407)
\* of a freshly built instance graph with these needs
GraphScratchAlignedSize(need) ==
  PlannedOpScratchByteSize(0, <<Op("Conv", "conv", <<>>, need.op)>>) + need.tensor

\* unet_filter.cpp:433-448, 463, 474-475: the scratch buffer of engine 0 as a
\* successful buildModel lays it out
BuiltModel(need, aeSize) ==
  LET graphScratchByteSize == GraphScratchAlignedSize(need)
      scratchByteSize == IF hdr THEN Max(graphScratchByteSize, aeSize)
                         ELSE graphScratchByteSize
      temp == inplace /\ tileCountH * tileCountW > 1
      outputTempByteSize == H * W
  IN [built |-> TRUE,
      opScratch |-> need.op,
      tensorScratch |-> need.tensor,
      autoexposureScratch |-> IF hdr THEN aeSize ELSE 0,
      graphScratchByteSize |-> graphScratchByteSize,
      outputTempByteOffset |-> IF temp THEN scratchByteSize ELSE SIZE_MAX,
      outputTempByteSize |-> IF temp THEN outputTempByteSize ELSE 0,
      scratchByteSize |-> IF temp THEN scratchByteSize + outputTempByteSize
                          ELSE scratchByteSize]

\* init has returned: unet_filter.cpp:253-254, then 82-86 of commit; a successful
\* buildModel has left the model it built (unet_filter.cpp:381-382, 444-448, 474-490)
InitReturns ==
  /\ tileCountH' = FinalTileCount(H, tileH)
  /\ tileCountW' = FinalTileCount(W, tileW)
  /\ instances' = (H > 0 /\ W > 0)
  /\ autoexposure' = (H > 0 /\ W > 0 /\ hdr)
  /\ outputTemp' = (H > 0 /\ W > 0 /\ inplace /\ tileCountH * tileCountW > 1)
  /\ \E need \in GraphNeeds, aeSize \in AutoexposureSizes :
       model' = IF H > 0 /\ W > 0 THEN BuiltModel(need, aeSize) ELSE NoModel
  /\ fDirty' = FALSE
  /\ dirtyParam' = FALSE
  /\ ferr' = "none" /\ fmsg' = ""
  /\ ipc' = "idle"
  /\ commitWaits' = 2

\* unet_filter.cpp:69-72
InplaceNew ==
  /\ Has(output)
  /\ \/ Has(color) /\ overlaps(output, color)
     \/ Has(albedo) /\ overlaps(output, albedo)
     \/ Has(normal) /\ overlaps(output, normal)

\* a commit that takes every change for a change of a parameter
DirtyParamWheneverDirty == fDirty

\* unet_filter.cpp:73-75: dirtyParam after setParam(inplace, inplaceNew)
DirtyParamAfterSetParam == dirtyParam \/ inplace # InplaceNew

\* unet_filter.cpp:63-87 up to the tile loop of init (203-229)
Commit ==
  /\ ipc = "idle"
  /\ fcall' = FCalled("commit", "")
  /\ warned' = FALSE
  /\ UNCHANGED <<graphVars, reorderVars, buildVars, paramVars, overlap, alignment, numEngines, tiles,
                 userWeightsBlob, inputScale, submitted, outputDst>>
  /\ fallback' = IF fDirty /\ DirtyParamAfterSetParam THEN FALSE ELSE fallback
  /\ IF ~fDirty
     THEN /\ ferr' = "none" /\ fmsg' = ""
          /\ commitWaits' = 0
          /\ UNCHANGED <<H, W, tileH, tileW, tileCountH, tileCountW, ipc, inplace, fDirty,
                         dirtyParam, weightsBlob, instances, autoexposure, outputTemp,
                         model>>
     ELSE LET dirtyParamNew == DirtyParamAfterSetParam
          IN /\ inplace' = InplaceNew
             /\ IF ~dirtyParamNew
                THEN /\ fDirty' = FALSE
                     /\ commitWaits' = 0
                     /\ dirtyParam' = FALSE
                     /\ ferr' = "none" /\ fmsg' = ""
                     /\ UNCHANGED <<H, W, tileH, tileW, tileCountH, tileCountW, ipc,
                                    weightsBlob, instances, autoexposure, outputTemp,
                                    model>>
                ELSE /\ FilterCleanup
                     /\ dirtyParam' = TRUE
                     /\ commitWaits' = 1
                     /\ IF checkParams # "none"
                        THEN /\ InitThrows("InvalidOperation", checkParams)
                             /\ weightsBlob' = NoData
                             /\ UNCHANGED <<H, W, tileH, tileW, tileCountH, tileCountW>>
                        ELSE IF getWeights.err # "none"
                        THEN /\ InitThrows(getWeights.err, getWeights.msg)
                             /\ weightsBlob' = NoData
                             /\ UNCHANGED <<H, W, tileH, tileW, tileCountH, tileCountW>>
                        ELSE /\ weightsBlob' = getWeights.blob
                             /\ H' = output.H
                             /\ W' = output.W
                             /\ tileCountH' = 1
                             /\ tileCountW' = 1
                             /\ tileH' = round_up(output.H, alignment)
                             /\ tileW' = round_up(output.W, alignment)
                             /\ ipc' = "loop"
                             /\ ferr' = "none" /\ fmsg' = ""
                             /\ UNCHANGED fDirty

\* what the steps inside init leave alone
InsideInit ==
  UNCHANGED <<graphVars, reorderVars, buildVars, paramVars, H, W, overlap, alignment, numEngines, tiles,
              userWeightsBlob, inputScale, inplace, weightsBlob, submitted, fcall, warned,
              outputDst>>

\* unet_filter.cpp:231 leaves the loop: the count is even and buildModel returned true
InitBuilt ==
  /\ ipc = "loop"
  /\ ~EnginesUneven
  /\ TRUE \in BuildModelResults
  /\ InitReturns
  /\ InsideInit
  /\ UNCHANGED <<tileH, tileW, fallback>>

\* unet_filter.cpp:233-237
InitDivideH ==
  /\ BodyEntered
  /\ tileH > minTileSize /\ tileH > tileW
  /\ tileCountH + tileCountW < MaxTileCount
  /\ tileCountH' = tileCountH + 1
  /\ tileH' = DividedTileSize(H, tileCountH + 1)
  /\ InsideInit
  /\ UNCHANGED <<tileW, tileCountW, ipc, fallback, fDirty, dirtyParam, instances,
                 autoexposure, outputTemp, ferr, fmsg, model, commitWaits>>

\* unet_filter.cpp:238-242
InitDivideW ==
  /\ BodyEntered
  /\ ~(tileH > minTileSize /\ tileH > tileW)
  /\ tileW > minTileSize
  /\ tileCountH + tileCountW < MaxTileCount
  /\ tileCountW' = tileCountW + 1
  /\ tileW' = DividedTileSize(W, tileCountW + 1)
  /\ InsideInit
  /\ UNCHANGED <<tileH, tileCountH, ipc, fallback, fDirty, dirtyParam, instances,
                 autoexposure, outputTemp, ferr, fmsg, model, commitWaits>>

\* a last branch that does not look at the tile sizes
InitCannotDivideAnywhere ==
  /\ BodyEntered
  /\ \E built \in BuildModelResults :
       IF built
       THEN /\ InitReturns
            /\ fallback' = TRUE
       ELSE /\ InitThrows("runtime_error", "could not build filter model")
            /\ UNCHANGED <<tileCountH, tileCountW, fallback, dirtyParam, instances,
                           autoexposure, outputTemp, model, commitWaits>>
  /\ InsideInit
  /\ UNCHANGED <<tileH, tileW>>

\* unet_filter.cpp:243-249
InitCannotDivide ==
  /\ BodyEntered
  /\ ~(tileH > minTileSize /\ tileH > tileW)
  /\ ~(tileW > minTileSize)
  /\ \E built \in BuildModelResults :
       IF built
       THEN /\ InitReturns
            /\ fallback' = TRUE
       ELSE /\ InitThrows("runtime_error", "could not build filter model")
            /\ UNCHANGED <<tileCountH, tileCountW, fallback, dirtyParam, instances,
                           autoexposure, outputTemp, model, commitWaits>>
  /\ InsideInit
  /\ UNCHANGED <<tileH, tileW>>

\* one axis of a tile that keeps its trailing overlap in the output
TileAxisKeepsOverlapEnd(i, size, tile, count) ==
  LET h == i * (tile - 2 * overlap)
      overlapBegin == IF i > 0 THEN overlap ELSE 0
      tile1 == Min(size - h, tile)
  IN [pos |-> h, overlapBegin |-> overlapBegin, overlapEnd |-> 0,
      tile1 |-> tile1,
      tile2 |-> tile1 - overlapBegin,
      alignOffset |-> tile - round_up(tile1, alignment)]

\* unet_filter.cpp:146-151 and 155-160: one axis of tile i of count
TileAxis(i, size, tile, count) ==
  LET h == i * (tile - 2 * overlap)
      overlapBegin == IF i > 0 THEN overlap ELSE 0
      overlapEnd == IF i < count - 1 THEN overlap ELSE 0
      tile1 == Min(size - h, tile)
  IN [pos |-> h, overlapBegin |-> overlapBegin, overlapEnd |-> overlapEnd,
      tile1 |-> tile1,
      tile2 |-> tile1 - overlapBegin - overlapEnd,
      alignOffset |-> tile - round_up(tile1, alignment)]

\* unet_filter.cpp:162-174: what tile (i, j), the tileIndex-th, is configured with
TileSetup(i, j, tileIndex) ==
  LET r == TileAxis(i, H, tileH, tileCountH)
      c == TileAxis(j, W, tileW, tileCountW)
  IN [instance |-> tileIndex % numEngines,
      srcH |-> r.pos, srcW |-> c.pos,
      srcAlignH |-> r.alignOffset, srcAlignW |-> c.alignOffset,
      tileH1 |-> r.tile1, tileW1 |-> c.tile1,
      bufH |-> r.alignOffset + r.overlapBegin, bufW |-> c.alignOffset + c.overlapBegin,
      dstH |-> r.pos + r.overlapBegin, dstW |-> c.pos + c.overlapBegin,
      tileH2 |-> r.tile2, tileW2 |-> c.tile2]

\* unet_filter.cpp:142-184: the tiles in the order of the two loops
TileLoop ==
  [k \in 1..(Max(tileCountH, 0) * Max(tileCountW, 0)) |->
     TileSetup((k - 1) \div tileCountW, (k - 1) % tileCountW, k - 1)]

\* graph.cpp:410-413: the number of ops of an instance graph
GraphWorkAmount == 2

\* graph.cpp:477-503: Graph::run submits each op and reports one unit of work
\* after it
RunEvents ==
  [k \in 1..(2 * GraphWorkAmount) |-> IF k % 2 = 1 THEN "op" ELSE "update"]

RECURSIVE Repeat(_, _)
Repeat(seq, n) == IF n <= 0 THEN <<>> ELSE seq \o Repeat(seq, n - 1)

\* an execute that submits the barrier before the tiles
SubmissionsBarrierFirst(tileSeq) ==
  <<"start">>
  \o (IF inputScale = NaN /\ hdr THEN <<"autoexposure", "update">> ELSE <<>>)
  \o <<"barrier">>
  \o Repeat(RunEvents, Len(tileSeq))
  \o (IF outputTemp THEN <<"copy">> ELSE <<>>)
  \o <<"finish">>

\* unet_filter.cpp:107-123, 179, 186, 189-196: what execute submits and reports,
\* in order, when nothing interrupts it
Submissions(tileSeq) ==
  <<"start">>
  \o (IF inputScale = NaN /\ hdr THEN <<"autoexposure", "update">> ELSE <<>>)
  \o Repeat(RunEvents, Len(tileSeq))
  \o <<"barrier">>
  \o (IF outputTemp THEN <<"copy">> ELSE <<>>)
  \o <<"finish">>

\* the progress updates after which the monitor function can ask to abort; 0 is
\* no abort
AbortPoints(events) ==
  {0} \cup (IF progressFunc THEN {i \in 1..Len(events) : events[i] = "update"} ELSE {})

\* an execute that goes on after the update that was cancelled
UntilCancelledResumes(events, at) == events

\* graph.cpp:479-502, unet_filter.cpp:144-184: nothing catches what
\* progress.update raises, so what follows the update is not reached
UntilCancelled(events, at) ==
  IF at = 0 THEN events ELSE SubSeq(events, 1, at)

\* Progress::update when the monitor function asks to abort: it waits for the
\* backend to drain and raises Cancelled
ProgressCancelled == [events |-> <<"wait">>, err |-> "Cancelled",
                      msg |-> "execution was cancelled"]

\* the tiles configured before the last event of a prefix of the submissions
TilesStarted(events) ==
  ceil_div(Cardinality({i \in 1..Len(events) : events[i] = "op"}), GraphWorkAmount)

\* unet_filter.cpp:89-201
Execute ==
  /\ ipc = "idle"
  /\ fcall' = FCalled("execute", "")
  /\ warned' = FALSE
  /\ IF fDirty
     THEN /\ ferr' = "InvalidOperation"
          /\ fmsg' = "changes to the filter are not committed"
          /\ tiles' = <<>>
          /\ submitted' = <<>>
          /\ outputDst' = ""
     ELSE IF H <= 0 \/ W <= 0
     THEN /\ ferr' = "none" /\ fmsg' = ""
          /\ tiles' = <<>>
          /\ submitted' = <<>>
          /\ outputDst' = ""
     ELSE /\ outputDst' = IF outputTemp THEN "outputTemp" ELSE "output"
          /\ \E at \in AbortPoints(Submissions(TileLoop)), sync \in BOOLEAN :
               LET done == UntilCancelled(Submissions(TileLoop), at)
               IN IF at = 0
                  THEN /\ ferr' = "none" /\ fmsg' = ""
                       /\ tiles' = TileLoop
                       /\ submitted' = done \o (IF sync THEN <<"wait">> ELSE <<>>)
                  ELSE /\ ferr' = ProgressCancelled.err
                       /\ fmsg' = ProgressCancelled.msg
                       /\ tiles' = SubSeq(TileLoop, 1, TilesStarted(done))
                       /\ submitted' = done \o ProgressCancelled.events
  /\ UNCHANGED <<graphVars, reorderVars, buildVars, paramVars, H, W, overlap, alignment, numEngines, tileH, tileW,
                 tileCountH, tileCountW, ipc, fallback, userWeightsBlob, inputScale, inplace,
                 fDirty, dirtyParam, weightsBlob, instances, autoexposure, outputTemp, model>>
  /\ commitWaits' = 0

\* a graph nobody builds, for the specifications of the filter
GraphIdle ==
  /\ GraphInit
  /\ ReorderIdle
  /\ weights = WeightMap(4, 1)
  /\ tensorLayout = "hwc"
  /\ fusedPostOps = {}

\* the filter as constructed, before any parameter is set (unet_filter.cpp:9-13)
FilterConstructed ==
  /\ BuildIdle
  /\ H = 0 /\ W = 0
  /\ tileH = 0 /\ tileW = 0 /\ tileCountH = 1 /\ tileCountW = 1
  /\ ipc = "idle" /\ fallback = FALSE /\ tiles = <<>>
  /\ userWeightsBlob = NoData /\ inputScale = NaN
  /\ inplace = FALSE /\ fDirty = TRUE /\ dirtyParam = TRUE
  /\ weightsBlob = NoData
  /\ instances = FALSE /\ autoexposure = FALSE /\ outputTemp = FALSE
  /\ submitted = <<>>
  /\ fcall = FCalled("UNetFilter", "") /\ ferr = "none" /\ warned = FALSE /\ fmsg = ""
  /\ model = NoModel /\ outputDst = "" /\ commitWaits = 0

\* the tile planner over image sizes, overlaps, alignments and engine counts
TileInit ==
  /\ GraphIdle
  /\ FilterConstructed
  /\ \E h \in ImageSizes, w \in ImageSizes :
       /\ output = Image("Float3", h, w, 2)
       /\ color = Image("Float3", h, w, 1)
  /\ albedo = NoImage /\ normal = NoImage
  /\ hdr = FALSE /\ srgb = FALSE /\ directional = FALSE /\ cleanAux = FALSE
  /\ progressFunc = FALSE
  /\ overlap \in Overlaps /\ alignment \in Alignments
  /\ numEngines \in EngineCounts

TileNext ==
  \/ Commit
  \/ InitBuilt
  \/ InitDivideH
  \/ InitDivideW
  \/ InitCannotDivide
  \/ Execute

TileSpec == TileInit /\ [][TileNext]_vars

\* the image of the specifications that vary the parameters and the calls
SmallH == 5
SmallW == 4

\* weight selection over every combination of inputs and flags, no user weights
ParamsInit ==
  /\ GraphIdle
  /\ FilterConstructed
  /\ output = Image("Float3", SmallH, SmallW, 2)
  /\ color \in {NoImage, Image("Float3", SmallH, SmallW, 1)}
  /\ albedo \in {NoImage, Image("Float3", SmallH, SmallW, 3)}
  /\ normal \in {NoImage, Image("Float3", SmallH, SmallW, 4)}
  /\ hdr \in BOOLEAN /\ srgb \in BOOLEAN /\ directional \in BOOLEAN /\ cleanAux \in BOOLEAN
  /\ progressFunc = FALSE
  /\ overlap = 1 /\ alignment = 1
  /\ numEngines = 1

ParamsSpec == ParamsInit /\ [][TileNext]_vars

\* parameter validation over formats, sizes, missing images and mode flags
Formats == {"Float3", "Half3", "Float"}
ImageChoices(buf) ==
  {NoImage} \cup {Image(f, h, SmallW, buf) : f \in Formats, h \in {SmallH, SmallH - 1}}

CheckInit ==
  /\ GraphIdle
  /\ FilterConstructed
  /\ output \in ImageChoices(2)
  /\ color \in ImageChoices(1)
  /\ albedo \in ImageChoices(3)
  /\ normal \in ImageChoices(4)
  /\ hdr \in BOOLEAN /\ srgb \in BOOLEAN /\ directional \in BOOLEAN /\ cleanAux = FALSE
  /\ progressFunc = FALSE
  /\ overlap = 1 /\ alignment = 1
  /\ numEngines = 1

CheckSpec == CheckInit /\ [][TileNext]_vars

\* execute with a progress monitor function that may ask to abort
ExecInit ==
  /\ GraphIdle
  /\ FilterConstructed
  /\ output \in {Image("Float3", SmallH, SmallW, 1), Image("Float3", SmallH, SmallW, 2)}
  /\ color = Image("Float3", SmallH, SmallW, 1)
  /\ albedo = NoImage /\ normal = NoImage
  /\ hdr \in BOOLEAN /\ srgb = FALSE /\ directional = FALSE /\ cleanAux = FALSE
  /\ progressFunc = TRUE
  /\ overlap = 1 /\ alignment = 1
  /\ numEngines \in EngineCounts

ExecNext ==
  \/ SetFloat
  \/ Commit
  \/ InitBuilt
  \/ InitDivideH
  \/ InitDivideW
  \/ InitCannotDivide
  \/ Execute

ExecSpec == ExecInit /\ [][ExecNext]_vars

\* the calls of the filter in any order
FilterInit ==
  /\ GraphIdle
  /\ FilterConstructed
  /\ output \in {Image("Float3", SmallH, SmallW, 1), Image("Float3", SmallH, SmallW, 2)}
  /\ color \in {NoImage, Image("Float3", SmallH, SmallW, 1)}
  /\ albedo = NoImage /\ normal = NoImage
  /\ hdr \in BOOLEAN /\ srgb = FALSE /\ directional = FALSE /\ cleanAux = FALSE
  /\ progressFunc = FALSE
  /\ overlap = 1 /\ alignment = 1
  /\ numEngines \in EngineCounts

FilterNext ==
  \/ SetData
  \/ UpdateData
  \/ UnsetData
  \/ SetFloat
  \/ Commit
  \/ InitBuilt
  \/ InitDivideH
  \/ InitDivideW
  \/ InitCannotDivide
  \/ Execute

FilterSpec == FilterInit /\ [][FilterNext]_vars

(***************************************************************************)
(* Properties of the graph.                                                *)
(***************************************************************************)
AddCalls == {"addInputProcess", "addOutputProcess", "addConv", "addConcatConv",
             "addPool", "addUpsample"}
AllocIds == 1..Len(tensorAllocs)

\* the allocation reached from i by following next n times
RECURSIVE NthNext(_, _)
NthNext(i, n) ==
  IF n = 0 \/ i = NullPtr THEN i ELSE NthNext(tensorAllocs[i].next, n - 1)

LinksSymmetric ==
  \A a, b \in AllocIds : (tensorAllocs[a].next = b) <=> (tensorAllocs[b].prev = a)
ChainsAcyclic ==
  \A a \in AllocIds : \A n \in 1..Len(tensorAllocs) : NthNext(a, n) # a

\* every TensorAlloc is the destination of an op of the graph: no add has
\* thrown after it had appended its record, and none had undefined behaviour
OnlySuccessfulAdds ==
  /\ ~ub /\ ~finalized
  /\ Len(tensorAllocs) = Cardinality({i \in 1..Len(ops) : ops[i].kind # "OutputProcess"})

\* planAllocations has run on the allocation records as they are
Planned == ~dirty /\ OnlySuccessfulAdds /\ tensorAllocs # <<>>

LifetimesOverlap(a, b) == a.firstOpID <= b.lastOpID /\ b.firstOpID <= a.lastOpID
BytesDisjoint(a, b) ==
  \/ a.byteOffset + a.byteSize <= b.byteOffset
  \/ b.byteOffset + b.byteSize <= a.byteOffset

RECURSIVE HighWaterMark(_, _)
HighWaterMark(allocs, k) ==
  IF k > Len(allocs) THEN 0
  ELSE Max(allocs[k].byteOffset + allocs[k].byteSize, HighWaterMark(allocs, k + 1))

\* C1: after planAllocations on a graph built by successful adds, two
\* TensorAllocs whose op-ID ranges overlap have disjoint byte extents.
C1_DisjointLifetimeDisjointBytes ==
  Planned =>
    \A a, b \in AllocIds :
      (a # b /\ LifetimesOverlap(tensorAllocs[a], tensorAllocs[b]))
        => BytesDisjoint(tensorAllocs[a], tensorAllocs[b])

\* C2: after planning, a.next = b implies b.byteOffset = a.byteOffset + a.byteSize.
C2_ChainAdjacency ==
  Planned =>
    \A a \in AllocIds :
      tensorAllocs[a].next # NullPtr =>
        tensorAllocs[tensorAllocs[a].next].byteOffset =
          tensorAllocs[a].byteOffset + tensorAllocs[a].byteSize

\* C3: getScratchAlignedSize leaves the graph planned and returns the largest
\* byteOffset + byteSize over the TensorAllocs plus the largest op scratch
\* over the ops.  Stated for the graphs whose chains have no cycle, in which
\* the planner places every allocation.
C3_ScratchSizeIsHighWaterPlusOpScratch ==
  (call.op = "getScratchAlignedSize" /\ OnlySuccessfulAdds /\ ChainsAcyclic) =>
    /\ ~dirty
    /\ ret = HighWaterMark(tensorAllocs, 1) + MaxOpScratchOf(ops, 1)

\* C5: on a finalized graph every add operation fails with the usage error
\* "graph cannot be changed after finalization" and appends no op.
C5_AddAfterFinalizeIsUsageError ==
  [][(finalized /\ call'.op \in AddCalls) => (err' = "logic_error" /\ ops' = ops)]_vars

\* C6: clear() returns the graph to building from any lifecycle state: it
\* leaves no ops, allocation records, lazy initializers or scratch, the size
\* counters are 0, and the add that follows is accepted.
C6_ClearReturnsToBuilding ==
  [][/\ call'.op = "clear" =>
          /\ ops' = <<>> /\ tensorAllocs' = <<>> /\ DOMAIN tensorAllocsByOp' = {}
          /\ lazyInits' = <<>> /\ ~scratch'
          /\ opScratchByteSize' = 0 /\ tensorScratchByteSize' = 0 /\ constByteSize' = 0
     /\ (call.op = "clear" /\ call'.op = "addInputProcess") =>
          (err' = "none" /\ Len(ops') = 1)]_vars

\* C7: in every state reachable by add operations the prev/next links form
\* disjoint acyclic chains with a.next = b exactly when b.prev = a (so an add
\* that would close a cycle must have raised an error instead).
C7_ChainsAreAcyclic ==
  ~ub => (LinksSymmetric /\ ChainsAcyclic)

\* C8: addConv and addConcatConv on a graph being built fail with the build
\* error and add no op when the weight map lacks name.weight or name.bias,
\* or the weight is not of rank 4, or the bias not of rank 1.
C8_BadWeightsAreBuildError ==
  [][(/\ call'.op \in {"addConv", "addConcatConv"}
      /\ ~finalized
      /\ \/ MapGet(weights, WeightKey(call'.name)) # 4
         \/ MapGet(weights, BiasKey(call'.name)) # 1)
     => (err' = "invalid_argument" /\ ops' = ops)]_vars
\* a 1024 x 1024 image with overlap 16 and alignment 32 on two engines
GridExample ==
  [H |-> 1024, W |-> 1024, overlap |-> 16, alignment |-> 32, numEngines |-> 2]

\* the example, and small images that reach every branch of the loop of init
GridConfigs ==
  {GridExample} \cup
  [H : {SmallH}, W : ImageSizes, overlap : Overlaps, alignment : {1},
   numEngines : EngineCounts]

\* the tile planner on the example grid
GridInit ==
  /\ GraphIdle
  /\ FilterConstructed
  /\ \E g \in GridConfigs :
       /\ output = Image("Float3", g.H, g.W, 2)
       /\ color = Image("Float3", g.H, g.W, 1)
       /\ overlap = g.overlap /\ alignment = g.alignment
       /\ numEngines = g.numEngines
  /\ albedo = NoImage /\ normal = NoImage
  /\ hdr = FALSE /\ srgb = FALSE /\ directional = FALSE /\ cleanAux = FALSE
  /\ progressFunc = FALSE

GridSpec == GridInit /\ [][TileNext]_vars


(***************************************************************************)
(* Properties of the filter.                                               *)
(***************************************************************************)
\* the output rectangles that contain pixel (y, x)
TilesAt(y, x) ==
  {k \in 1..Len(tiles) :
     /\ tiles[k].dstH <= y /\ y < tiles[k].dstH + tiles[k].tileH2
     /\ tiles[k].dstW <= x /\ x < tiles[k].dstW + tiles[k].tileW2}

TileInsideImage(t) ==
  /\ 0 <= t.dstH /\ t.dstH + t.tileH2 <= H
  /\ 0 <= t.dstW /\ t.dstW + t.tileW2 <= W

\* the last call was an execute that went through the tile grid
Executed == fcall.op = "execute" /\ ferr = "none" /\ H > 0 /\ W > 0

\* C4: when init has completed on an image with H, W > 0 and execute has
\* configured the tiles of the final grid, every pixel of [0,W) x [0,H) lies in
\* exactly one output rectangle and no output rectangle leaves the image.
C4_TilesCoverImageExactly ==
  Executed =>
    /\ Len(tiles) = tileCountH * tileCountW
    /\ \A y \in 0..(H - 1) : \A x \in 0..(W - 1) : Cardinality(TilesAt(y, x)) = 1
    /\ \A k \in 1..Len(tiles) : TileInsideImage(tiles[k])

\* C4 witness: execute went through a grid with several rows and columns of
\* tiles and a nonzero overlap
C4_Witness ==
  /\ Executed
  /\ tileCountH > 1 /\ tileCountW > 1
  /\ overlap > 0
  /\ Len(tiles) = tileCountH * tileCountW

SetterOps == {"setData", "updateData", "unsetData", "setFloat"}

\* C9: every setter call, whatever the name, leaves the filter dirty; the filter
\* stays dirty until a commit returns without error; and an execute on a dirty
\* filter raises InvalidOperation, configures no tile and submits nothing.
C9_DirtyUntilCommittedRejectsExecute ==
  [][/\ (fcall'.op \in SetterOps) => fDirty'
     /\ (fDirty /\ ~fDirty') => (fcall'.op = "commit" /\ ferr' = "none" /\ ipc' = "idle")
     /\ (fDirty /\ fcall'.op = "execute")
          => (ferr' = "InvalidOperation" /\ submitted' = <<>> /\ tiles' = <<>>)]_vars

\* C9 witness: execute raised InvalidOperation on a filter that holds the model
\* of a successful commit and was then touched by a setter that changed no
\* parameter (setFloat, or any setter with a name it does not know)
C9_Witness ==
  /\ fcall.op = "execute" /\ ferr = "InvalidOperation"
  /\ fDirty /\ ~dirtyParam /\ instances
  /\ submitted = <<>>

\* the selection table: the blob of a combination, NoData for a combination
\* that is not listed
TableBlob(c, a, n, h, d, ca) ==
  CASE      c /\ ~a /\ ~n /\ ~h /\ ~d /\ ~ca -> "ldr"
    []      c /\ ~a /\ ~n /\  h /\ ~d /\ ~ca -> "hdr"
    []      c /\ ~a /\ ~n /\ ~h /\  d /\ ~ca -> "dir"
    []      c /\  a /\ ~n /\ ~h /\ ~d /\ ~ca -> "ldr_alb"
    []      c /\  a /\ ~n /\  h /\ ~d /\ ~ca -> "hdr_alb"
    []      c /\  a /\  n /\ ~h /\ ~d /\ ~ca -> "ldr_alb_nrm"
    []      c /\  a /\  n /\  h /\ ~d /\ ~ca -> "hdr_alb_nrm"
    []      c /\  a /\  n /\ ~h /\ ~d /\  ca -> "ldr_calb_cnrm"
    []      c /\  a /\  n /\  h /\ ~d /\  ca -> "hdr_calb_cnrm"
    []     ~c /\  a /\ ~n /\ ~h /\ ~d /\ ~ca -> "alb"
    []     ~c /\ ~a /\  n /\ ~h /\ ~d /\ ~ca -> "nrm"
    [] OTHER -> NoData

\* C10: with no user weights (and srgb off, which the table does not key on),
\* when commit has run init the selected blob is the one the table lists for
\* the combination of inputs and flags, and a combination the table does not
\* list has been rejected with no blob selected.
C10_SelectionFollowsTable ==
  (fcall.op = "commit" /\ ~srgb /\ userWeightsBlob = NoData)
    => /\ weightsBlob = TableBlob(Has(color), Has(albedo), Has(normal), hdr, directional,
                                  cleanAux)
       /\ (weightsBlob = NoData) <=> (ferr = "InvalidOperation")

\* the errors of parameter validation
CheckParamsMessages ==
  {"input image not specified", "output image not specified",
   "unsupported input image format", "unsupported output image format",
   "image size mismatch",
   "directional and hdr/srgb modes cannot be enabled at the same time",
   "hdr and srgb modes cannot be enabled at the same time"}

PresentInputs == {i \in {color, albedo, normal} : Has(i)}

\* the parameters are invalid in one of the ways validation is to reject
InvalidParams ==
  \/ PresentInputs = {}
  \/ ~Has(output)
  \/ Has(output) /\ \E i \in PresentInputs : i.W # output.W \/ i.H # output.H
  \/ ~ \/ \A i \in PresentInputs : i.format = "Float3"
       \/ \A i \in PresentInputs : i.format = "Half3"
  \/ Has(output) /\ output.format \notin {"Float3", "Half3"}
  \/ directional /\ (hdr \/ srgb)
  \/ hdr /\ srgb

\* C11: a commit that runs init on invalid parameters (no input, no output, a
\* size mismatch, inputs not all Float3 or all Half3, an output that is neither,
\* directional with hdr or srgb, hdr with srgb) raises InvalidOperation with one
\* of the validation errors and builds no model; on valid parameters it raises
\* none of the validation errors.
C11_InvalidParamsRejected ==
  (fcall.op = "commit" /\ ipc = "idle") =>
    /\ InvalidParams <=> (ferr = "InvalidOperation" /\ fmsg \in CheckParamsMessages)
    /\ InvalidParams => (~instances /\ ~autoexposure /\ ~outputTemp /\ weightsBlob = NoData
                         /\ fDirty /\ dirtyParam)

\* C11 witness: commit rejected hdr together with srgb on parameters that pass
\* every other validation, and built nothing
C11_Witness ==
  /\ fcall.op = "commit" /\ ferr = "InvalidOperation"
  /\ fmsg = "hdr and srgb modes cannot be enabled at the same time"
  /\ hdr /\ srgb /\ ~directional
  /\ ~instances

\* the scratch an instance graph uses: the op scratch at the bottom of the
\* buffer and the tensors above it
GraphScratchNeeded == model.opScratch + model.tensorScratch

\* C12: after a successful commit with inplace set and a final grid of more
\* than one tile, outputTemp exists inside the scratch buffer of engine 0 at an
\* offset at or above the graph scratch size and the autoexposure scratch size,
\* and execute binds the output processes to outputTemp.
C12_OutputTempAboveScratch ==
  (/\ ipc = "idle" /\ ~fDirty /\ inplace
   /\ H > 0 /\ W > 0 /\ tileCountH * tileCountW > 1)
  => /\ outputTemp /\ model.built
     /\ model.outputTempByteOffset >= GraphScratchNeeded
     /\ model.outputTempByteOffset >= model.autoexposureScratch
     /\ model.outputTempByteOffset + model.outputTempByteSize <= model.scratchByteSize
     /\ (fcall.op = "execute" /\ ferr = "none") => outputDst = "outputTemp"

\* the positions of an event in what the last execute submitted
EventsAt(ev) == {i \in 1..Len(submitted) : submitted[i] = ev}
Before(evA, evB) == \A i \in EventsAt(evA), j \in EventsAt(evB) : i < j

\* C13: in every execute the barrier is submitted once the ops of all tiles
\* are, no op is submitted after it, and with an outputTemp the copy is
\* submitted after the barrier and before the progress reporter is finished.
C13_BarrierAfterTilesCopyAfterBarrier ==
  (fcall.op = "execute") =>
    /\ Before("op", "barrier")
    /\ Before("barrier", "copy")
    /\ Before("copy", "finish")
    /\ Cardinality(EventsAt("barrier")) <= 1
    /\ (ferr = "none" /\ H > 0 /\ W > 0) =>
         /\ Cardinality(EventsAt("barrier")) = 1
         /\ Cardinality(EventsAt("op")) = tileCountH * tileCountW * GraphWorkAmount
         /\ Cardinality(EventsAt("finish")) = 1
         /\ Cardinality(EventsAt("copy")) = (IF outputTemp THEN 1 ELSE 0)

\* C13 witness: an execute over several tiles on two engines that ended with
\* the copy from outputTemp
C13_Witness ==
  /\ fcall.op = "execute" /\ ferr = "none"
  /\ outputTemp /\ numEngines = 2 /\ Len(tiles) > 1
  /\ EventsAt("copy") # {} /\ EventsAt("barrier") # {}

InitCompletedInBudget ==
  fcall.op = "commit" /\ ferr = "none" /\ ipc = "idle" /\ ~fDirty /\ ~fallback

\* C15: when init completes without the fallback, the final numbers of tiles
\* it stores multiply to a multiple of the number of engines.
C15_FinalGridDivisibleByEngines ==
  InitCompletedInBudget => (tileCountH * tileCountW) % numEngines = 0

\* C16: when init completes without the fallback, tileH and tileW are both at
\* least 3 * overlap.
C16_TilesAtLeastMinTileSize ==
  InitCompletedInBudget => (tileH >= 3 * overlap /\ tileW >= 3 * overlap)

\* C16 as the code has it: when init completes without the fallback, a tile
\* dimension is at least 3 * overlap unless the image is smaller than that in
\* the dimension, and then it is the image size rounded up to the alignment.
C16_TilesAtLeastMinTileSizeOrImage ==
  InitCompletedInBudget =>
    /\ tileH >= 3 * overlap \/ (H < 3 * overlap /\ tileH = round_up(H, alignment))
    /\ tileW >= 3 * overlap \/ (W < 3 * overlap /\ tileW = round_up(W, alignment))

\* C16 witness: init completed within the budget on an image that is lower
\* than 3 * overlap, with a tile height below 3 * overlap, and wide enough to
\* have been divided into columns
C16_Witness ==
  /\ InitCompletedInBudget
  /\ H > 0 /\ H < 3 * overlap /\ tileH < 3 * overlap
  /\ tileCountW > 1 /\ tileW >= 3 * overlap

\* init ran on the example and left its loop when buildModel first succeeded
\* with 2 x 2 = 4 tiles: the loop visits 1 x 1, 1 x 2, 2 x 2, 2 x 3, ... and
\* the tile sizes of 2 x 2 belong to no other step
BuiltAtFourTiles ==
  /\ [H |-> H, W |-> W, overlap |-> overlap, alignment |-> alignment,
      numEngines |-> numEngines] = GridExample
  /\ fcall.op \in {"commit", "execute"} /\ ipc = "idle" /\ ~fDirty /\ ~fallback
  /\ tileH = DividedTileSize(H, 2) /\ tileW = DividedTileSize(W, 2)

\* two output rectangles have no pixel in common
TilesDisjoint(s, t) ==
  \/ s.dstH + s.tileH2 <= t.dstH \/ t.dstH + t.tileH2 <= s.dstH
  \/ s.dstW + s.tileW2 <= t.dstW \/ t.dstW + t.tileW2 <= s.dstW

NoTwoTilesOverlap ==
  \A k \in 1..Len(tiles) : \A l \in 1..Len(tiles) :
    k # l => TilesDisjoint(tiles[k], tiles[l])

\* C17: for H = W = 1024, overlap 16, alignment 32, two engines and a
\* buildModel that fails until there are exactly 4 tiles, init ends with a
\* 2 x 2 grid, and in execute every output tile covers exactly 512 x 512
\* pixels, no two tiles overlap and the tile count is a multiple of the engine
\* count.
C17_GridExampleTiles512 ==
  BuiltAtFourTiles =>
    /\ tileCountH = 2 /\ tileCountW = 2
    /\ Executed =>
         /\ \A k \in 1..Len(tiles) : tiles[k].tileH2 = 512 /\ tiles[k].tileW2 = 512
         /\ NoTwoTilesOverlap
         /\ Len(tiles) % numEngines = 0

\* C17 as the code has it: the grid is 2 x 2 and the four output tiles are
\* disjoint and cover the image, but the first tile of an axis covers 528
\* pixels (its 544 less the trailing overlap) and the second the remaining 496.
C17_GridExampleTiles528And496 ==
  BuiltAtFourTiles =>
    /\ tileCountH = 2 /\ tileCountW = 2
    /\ tileH = 544 /\ tileW = 544
    /\ Executed =>
         /\ Len(tiles) = 4
         /\ \A k \in 1..Len(tiles) :
              /\ tiles[k].dstH \in {0, 528} /\ tiles[k].dstW \in {0, 528}
              /\ tiles[k].tileH2 = (IF tiles[k].dstH = 0 THEN 528 ELSE 496)
              /\ tiles[k].tileW2 = (IF tiles[k].dstW = 0 THEN 528 ELSE 496)
              /\ TileInsideImage(tiles[k])
         /\ NoTwoTilesOverlap
         /\ Len(tiles) % numEngines = 0

\* C17 witness: execute went through the four tiles of the example
C17_Witness ==
  BuiltAtFourTiles /\ Executed /\ Len(tiles) = 4

\* C18: when the engine cannot fuse the requested postOp, addConv(name, src,
\* activation, postOp) appends exactly two ops in this order: a convolution
\* named name with no post-op reading src, then a pool named name + "_pool"
\* (or an upsample named name + "_upsample") reading that convolution, and
\* returns the second op, whose destination allocation is the one registered
\* for it; when fusion is supported (or no post-op is asked for) it appends
\* exactly one op.
C18_SplitAppendsConvThenPostOp ==
  [][(call'.op = "addConv" /\ err' = "none" /\ ~ub' /\ ~ub) =>
       LET n == Len(ops)
           name == call'.name
           postOp == call'.postOp
       IN /\ SubSeq(ops', 1, n) = ops
          /\ IF postOp # "None" /\ postOp \notin fusedPostOps
             THEN /\ Len(ops') = n + 2
                  /\ ops'[n + 1].kind = "Conv" /\ ops'[n + 1].name = name
                  /\ ops'[n + 1].srcs = <<call'.srcOp>>
                  /\ ops'[n + 2].kind = postOp
                  /\ ops'[n + 2].name =
                       name \o (IF postOp = "Pool" THEN "_pool" ELSE "_upsample")
                  /\ ops'[n + 2].srcs = <<n>>
                  /\ ret' = n + 1
                  /\ MapGet(tensorAllocsByOp', ret') = Len(tensorAllocs')
                  /\ tensorAllocs'[Len(tensorAllocs')].firstOpID = n + 1
                  /\ tensorAllocs'[MapGet(tensorAllocsByOp', n)].lastOpID = n + 1
             ELSE /\ Len(ops') = n + 1
                  /\ ops'[n + 1].name = name
                  /\ ops'[n + 1].kind =
                       (IF postOp = "None" THEN "Conv" ELSE "Conv+" \o postOp)
                  /\ ops'[n + 1].srcs = <<call'.srcOp>>
                  /\ ret' = n]_vars

\* C18 witness: an addConv with a Pool post-op on an engine that cannot fuse
\* it has returned, leaving "conv" and "conv_pool" as the last two ops
C18_Witness ==
  /\ call.op = "addConv" /\ err = "none" /\ ~ub
  /\ call.postOp = "Pool" /\ "Pool" \notin fusedPostOps
  /\ Len(ops) >= 3
  /\ ops[Len(ops) - 1].name = "conv" /\ ops[Len(ops)].name = "conv_pool"

\* C19: after reorderWeight(src, srcBeginI, srcI, dst, dstBeginI, dstI) on a
\* supported type/layout pair, for every padded output channel o of dst, every
\* i in [0, dstI) and every h, w: dst[o, dstBeginI+i, h, w] equals
\* src[o, srcBeginI+i, h, w] when o is below the source's logical O and
\* i < srcI, and equals 0 otherwise; reorderBias copies the source's X values
\* and writes 0 to every remaining element up to the destination's padded
\* length.
C19_ReorderCopiesSliceAndPadsWithZero ==
  /\ (rcall = "reorderWeight" /\ rerr = "none") =>
       \A o \in 0..(dstTensor.paddedDims[1] - 1), i \in 0..(reorderArgs.dstI - 1),
          h \in 0..(dstTensor.paddedDims[3] - 1), w \in 0..(dstTensor.paddedDims[4] - 1) :
         dstTensor.data[<<o, reorderArgs.dstBeginI + i, h, w>>] =
           Value(dstTensor.dataType,
                 IF o < srcTensor.dims[1] /\ i < reorderArgs.srcI
                 THEN srcTensor.data[<<o, reorderArgs.srcBeginI + i, h, w>>].v
                 ELSE 0)
  /\ (rcall = "reorderBias" /\ rerr = "none") =>
       \A x \in 0..(dstTensor.paddedDims[1] - 1) :
         dstTensor.data[<<x>>] =
           Value(dstTensor.dataType,
                 IF x < srcTensor.dims[1] THEN srcTensor.data[<<x>>].v ELSE 0)

\* C19 witness: a reorderWeight has copied a slice that does not begin at
\* input channel 0 into a float tensor with more output and input channels
\* than the source
C19_Witness ==
  /\ rcall = "reorderWeight" /\ rerr = "none"
  /\ dstTensor.dataType = "float"
  /\ reorderArgs.srcBeginI > 0 /\ reorderArgs.srcI > 0
  /\ reorderArgs.dstI > reorderArgs.srcI
  /\ dstTensor.paddedDims[1] > srcTensor.dims[1]

\* neither tile dimension can be divided further (unet_filter.cpp:233, 238)
CannotDivide ==
  /\ tileH <= 3 * overlap \/ tileH <= tileW
  /\ tileW <= 3 * overlap

ModelBuildErrorRaised ==
  ferr = "runtime_error" /\ fmsg = "could not build filter model"

\* C20: init raises the model-build error only in the state where neither
\* tile dimension can be subdivided further (tileH <= 3*overlap or
\* tileH <= tileW, and tileW <= 3*overlap) and buildModel with no memory
\* ceiling also returns false; in that state a successful no-ceiling
\* buildModel ends the loop without error, and no other path of the
\* subdivision loop raises this error: a step of the loop that divides a
\* dimension raises nothing.
C20_ModelBuildErrorOnlyWhenCannotDivide ==
  [][/\ ModelBuildErrorRaised' =>
          /\ ipc = "loop" /\ BodyEntered /\ CannotDivide
          /\ FALSE \in BuildModelResults
          /\ ipc' = "idle" /\ ~fallback'
     /\ (fallback' /\ ~fallback) =>
          /\ ipc = "loop" /\ BodyEntered /\ CannotDivide
          /\ ipc' = "idle" /\ ferr' = "none" /\ ~fDirty'
     /\ (ipc = "loop" /\ ~CannotDivide) =>
          /\ ferr' = "none"
          /\ ~fallback']_vars

\* C20 witness: init has raised the model-build error after dividing the image
C20_Witness ==
  /\ ModelBuildErrorRaised
  /\ fcall.op = "commit" /\ ipc = "idle"
  /\ tileCountH + tileCountW > 2

\* what a commit that does not run init leaves as it found it
NotRebuilt ==
  /\ ipc' = "idle" /\ ferr' = "none"
  /\ commitWaits' = 0
  /\ UNCHANGED <<instances, autoexposure, outputTemp, model, weightsBlob, inplace,
                 H, W, tileH, tileW, tileCountH, tileCountW, fallback,
                 userWeightsBlob, inputScale, submitted, tiles, outputDst>>
  /\ ~fDirty' /\ ~dirtyParam'

RECURSIVE SumByteSize(_)
SumByteSize(S) ==
  IF S = {} THEN 0
  ELSE LET a == CHOOSE x \in S : TRUE
       IN tensorAllocs[a].byteSize + SumByteSize(S \ {a})

\* the sets of TensorAllocs whose lifetimes pairwise overlap
LiveTogether ==
  {S \in SUBSET AllocIds :
     \A a, b \in S : LifetimesOverlap(tensorAllocs[a], tensorAllocs[b])}

\* C22: for every graph, the size returned by getScratchAlignedSize() is at
\* least the sum of byteSize over any set of TensorAllocs whose lifetimes
\* [firstOpID, lastOpID] pairwise overlap.
C22_ScratchSizeAtLeastLiveSum ==
  (call.op = "getScratchAlignedSize" /\ ~ub /\ ~finalized) =>
    \A S \in LiveTogether : ret >= SumByteSize(S)

\* C22 on the graphs whose chains have no cycle
C22_AcyclicScratchSizeAtLeastLiveSum ==
  (call.op = "getScratchAlignedSize" /\ OnlySuccessfulAdds /\ ChainsAcyclic) =>
    \A S \in LiveTogether : ret >= SumByteSize(S)

\* the records of a state without the offsets the planner gave them
Unplaced(allocs) == [a \in DOMAIN allocs |-> [allocs[a] EXCEPT !.byteOffset = 0]]

\* the members of the chain that begins at the record first
ChainMembers(first) ==
  {NthNext(first, n) : n \in 0..(Len(tensorAllocs) - 1)} \ {NullPtr}

MinFirstOp(S) == CHOOSE f \in {tensorAllocs[a].firstOpID : a \in S} :
                   \A a \in S : f <= tensorAllocs[a].firstOpID
MaxLastOp(S) == CHOOSE l \in {tensorAllocs[a].lastOpID : a \in S} :
                  \A a \in S : l >= tensorAllocs[a].lastOpID

\* the chain that begins at first lies in one piece from the offset of first,
\* each member directly behind the one before, inside the tensor scratch
Contiguous(first) ==
  /\ \A a \in ChainMembers(first) : tensorAllocs[a].next # NullPtr =>
       tensorAllocs[tensorAllocs[a].next].byteOffset =
         tensorAllocs[a].byteOffset + tensorAllocs[a].byteSize
  /\ tensorScratchByteSize >=
       tensorAllocs[first].byteOffset + SumByteSize(ChainMembers(first))

\* the piece of the chain that begins at first has no byte of a member of the
\* chain that begins at other which lives at some op between the first and
\* the last op of the chain of first: the chain of first fitted, as one chunk
\* of the summed size and the min/max lifetime, beside the placed chain of other
FitsBeside(first, other) ==
  LET S == ChainMembers(first)
      begin == tensorAllocs[first].byteOffset
      end == begin + SumByteSize(S)
  IN \A b \in ChainMembers(other) :
       (tensorAllocs[b].firstOpID <= MaxLastOp(S) /\ MinFirstOp(S) <= tensorAllocs[b].lastOpID)
         => \/ tensorAllocs[b].byteOffset + tensorAllocs[b].byteSize <= begin
            \/ end <= tensorAllocs[b].byteOffset

\* every chain is one piece, and of two chains the one placed later fitted
\* beside the one placed earlier
PlacedAsOneChunk(first) ==
  /\ Contiguous(first)
  /\ \A other \in AllocIds \ {first} : tensorAllocs[other].prev = NullPtr =>
       FitsBeside(first, other) \/ FitsBeside(other, first)

\* C23: planning three chained TensorAllocs of sizes 50, 70, 30 (all lifetimes
\* [0,10]) together with a fourth unchained allocation of size 40 and lifetime
\* [5,9] places the chain at offsets 0, 50, 120 and the fourth at offset 150,
\* and reports a tensor scratch size of 190; more generally a chain is placed
\* as one chunk whose size is the sum of its members and whose lifetime is the
\* min/max over its members.
C23_ChainPlacedAsOneChunk ==
  (call.op = "getScratchAlignedSize") =>
    /\ Unplaced(tensorAllocs) = ChainExample =>
         /\ [a \in AllocIds |-> tensorAllocs[a].byteOffset] = <<0, 50, 120, 150>>
         /\ tensorScratchByteSize = 190
    /\ \A first \in AllocIds : tensorAllocs[first].prev = NullPtr => PlacedAsOneChunk(first)

\* C23 witness: the planner has placed the records of the example
C23_Witness ==
  /\ call.op = "getScratchAlignedSize" /\ ~dirty
  /\ Unplaced(tensorAllocs) = ChainExample

\* a division of one axis either makes the tile of that axis smaller or leaves
\* no more tiles on it than the image has rows or columns: the tile size
\* falls with the count and is at its lowest once the count exceeds the
\* extent, so a division that breaks this repeats for ever while buildModel
\* keeps failing, and a loop all of whose divisions keep it ends
DivisionMakesProgress ==
  /\ (ipc = "loop" /\ tileCountH' = tileCountH + 1) =>
       (tileH' < tileH \/ tileCountH' <= Max(H, 1))
  /\ (ipc = "loop" /\ tileCountW' = tileCountW + 1) =>
       (tileW' < tileW \/ tileCountW' <= Max(W, 1))

\* C24: for every image size, overlap >= 0, alignment >= 1 (including
\* alignment greater than overlap), engine count >= 1 and every sequence of
\* buildModel outcomes, the tile-subdivision loop in init terminates: it
\* either exits with a built model or reaches the no-ceiling fallback.
C24_SubdivisionLoopTerminates == [][DivisionMakesProgress]_vars

\* the same for an alignment of at most the overlap
C24_SubdivisionLoopTerminatesWhenAligned ==
  [][(alignment <= overlap) => DivisionMakesProgress]_vars

(***************************************************************************)
(* UNetFilter::buildModel (unet_filter.cpp:366-498) and resetModel         *)
(* (unet_filter.cpp:500-512) over the Graphs of the instances.  The op     *)
(* sequence of lines 395-424 is kept to its ends and its first             *)
(* convolution: input, enc_conv0, output; the convolutions between are     *)
(* added by the same calls.                                                *)
(***************************************************************************)
\* the weights parseTZA gives a Graph for a valid blob (graph.cpp:15-17)
UNetWeights ==
  MapPut(MapPut(EmptyMap, WeightKey("enc_conv0"), 4), BiasKey("enc_conv0"), 1)

\* `new Graph(engine, weightsBlob)` (unet_filter.cpp:209-214, graph.h:112-116)
NewGraph ==
  [ops |-> <<>>, scratch |-> FALSE, opScratchByteSize |-> 0,
   tensorScratchByteSize |-> 0, constByteSize |-> 0,
   dirty |-> FALSE, finalized |-> FALSE, tensorAllocs |-> <<>>,
   tensorAllocsByOp |-> EmptyMap, lazyInits |-> <<>>, weights |-> UNetWeights,
   trace |-> <<>>, err |-> "none", ub |-> FALSE]

\* F of the value of v: a statement that works on the result of the one before
With(v, F(_)) == CHOOSE r \in {F(x) : x \in {v}} : TRUE

\* unet_filter.cpp:395-424: the adds, each on the graph the one before left;
\* an add that throws ends the sequence
AddUNet(g, need, ubo) ==
  With(AddInputProcessG(g, "input", need.input, 0), LAMBDA g1 :
    IF g1.err # "none" THEN g1
    ELSE With(AddConvG(g1, "enc_conv0", Len(g.ops), "None",
                       <<need.conv, need.conv>>, <<need.op, 0>>, ubo), LAMBDA g2 :
           IF g2.err # "none" THEN g2
           ELSE AddOutputProcessG(g2, "output", Len(g1.ops), 0, ubo)))

\* UNetFilter::resetModel (unet_filter.cpp:500-512)
ResetModel(st) ==
  [st EXCEPT !.graphs = [i \in DOMAIN st.graphs |-> ClearG(st.graphs[i])],
             !.autoexposure = FALSE,
             !.imageCopy = FALSE,
             !.outputTemp = FALSE]

\* a total that counts the graph of engine 0 only
TotalMemoryOfOneEngine(scratchByteSize, privateByteSize, graphScratchByteSize) ==
  scratchByteSize + privateByteSize

\* unet_filter.cpp:451-452
TotalMemoryByteSize(scratchByteSize, privateByteSize, graphScratchByteSize) ==
  scratchByteSize + privateByteSize +
    (graphScratchByteSize + privateByteSize) * (numEngines - 1)

\* unet_filter.cpp:437-438: the scratch of instance 0 also serves autoexposure
WithAutoexposure(instanceId, scratchByteSize, aeSize) ==
  IF instanceId = 0 /\ hdr THEN Max(scratchByteSize, aeSize) ELSE scratchByteSize

\* unet_filter.cpp:443: in-place tiled filtering writes to a temporary output
NeedsOutputTemp(instanceId) ==
  instanceId = 0 /\ inplace /\ tileCountH * tileCountW > 1

\* ImageDesc(output->getFormat(), W, H).getAlignedSize() (unet_filter.cpp:441, 446)
OutputTempByteSize == H * W

RECURSIVE BuildInstances(_, _, _)

\* unet_filter.cpp:433-478: instance i - 1 from getScratchAlignedSize on, g2
\* being its planned graph
BuildPlanned(st, i, in, g2) ==
  LET graphScratchByteSize == g2.opScratchByteSize + g2.tensorScratchByteSize
      scratch1 == WithAutoexposure(i - 1, graphScratchByteSize, in.aeSize)
      scratchByteSize == IF NeedsOutputTemp(i - 1) THEN scratch1 + OutputTempByteSize
                         ELSE scratch1
      total == TotalMemoryByteSize(scratchByteSize, g2.constByteSize, graphScratchByteSize)
  IN IF i = 1 /\ total > in.budget
     THEN [ResetModel([st EXCEPT !.graphs[i] = g2])
             EXCEPT !.ret = "false", !.cause = "budget", !.totalMemoryByteSize = total]
     ELSE With([st EXCEPT !.graphs[i] = FinalizeG([g2 EXCEPT !.scratch = TRUE], <<>>),
                          !.scratchBuffers = Append(@, scratchByteSize),
                          !.outputTemp = IF NeedsOutputTemp(i - 1) THEN TRUE ELSE @,
                          !.totalMemoryByteSize = IF i = 1 THEN total ELSE @],
               LAMBDA next : BuildInstances(next, i + 1, in))

\* unet_filter.cpp:389-479: the loop over the instances from instance i - 1 on.
\* in holds what the device answers: the sizes of the tensors and op scratch,
\* the result of the planner's sort, isSupported of each graph, the scratch
\* of autoexposure.
BuildInstances(st, i, in) ==
  IF i > numEngines
  THEN [st EXCEPT !.ret = "true"]
  ELSE With(AddUNet(st.graphs[i], in.need, in.ubo), LAMBDA g1 :
         IF g1.err # "none"
         THEN [st EXCEPT !.graphs[i] = g1, !.ret = "raised", !.err = g1.err]
         ELSE IF ~in.supported[i]
         THEN [ResetModel([st EXCEPT !.graphs[i] = g1])
                 EXCEPT !.ret = "false", !.cause = "unsupported"]
         ELSE IF in.order \notin PlanOrders(g1)
         THEN [st EXCEPT !.ret = "no such order"]
         ELSE With(PlanIfDirty(g1, in.order), LAMBDA g2 : BuildPlanned(st, i, in, g2)))

\* unet_filter.cpp:481-497: after the loop
FinalizeGlobals(st) ==
  IF st.ret # "true" THEN st
  ELSE [st EXCEPT !.autoexposure = hdr,
                  !.imageCopy = IF st.outputTemp THEN TRUE ELSE @]

\* UNetFilter::buildModel (unet_filter.cpp:366-498)
buildModel(in) ==
  With([graphs |-> instanceGraphs, autoexposure |-> autoexposure,
        imageCopy |-> imageCopy, outputTemp |-> outputTemp,
        scratchBuffers |-> <<>>, ret |-> "none", err |-> "none",
        cause |-> "none", totalMemoryByteSize |-> 0], LAMBDA st :
    IF H <= 0 \/ W <= 0
    THEN [st EXCEPT !.ret = "true"]
    ELSE With(BuildInstances(st, 1, in), LAMBDA built : FinalizeGlobals(built)))

\* what the model lets the device answer: the size of the destination of the
\* convolution, the ceiling, the scratch autoexposure asks for
BuildNeeds == [input : {1}, conv : ByteSizes, op : {MaxOpScratch}]
BuildAutoexposureSizes == IF hdr THEN {1, 6} ELSE {0}
MemoryBudgets == {5, 9, 12, SIZE_MAX}

\* the results the planner's sort can have on a new graph with these sizes
BuildOrders(need) == PlanOrders(AddUNet(NewGraph, need, "crash"))

\* an add dereferences a null pointer only on a graph that takes ops and has
\* lost its weights
BuildUBChoices ==
  IF \E i \in DOMAIN instanceGraphs :
       ~instanceGraphs[i].finalized /\ instanceGraphs[i].weights # UNetWeights
  THEN UBOutcomes ELSE {"crash"}

\* what the build steps leave alone
InsideBuild ==
  UNCHANGED <<graphVars, reorderVars, tileVars, paramVars, userWeightsBlob, inputScale,
              inplace, fDirty, dirtyParam, weightsBlob, submitted, fcall, ferr, warned,
              fmsg, model, outputDst, commitWaits>>

\* init up to the tile loop (unet_filter.cpp:203-229): cleanup, then one new
\* Graph per engine
InitInstances ==
  /\ bcall.ret # "none"
  /\ instanceGraphs' = [i \in 1..numEngines |-> NewGraph]
  /\ scratchBuffers' = <<>>
  /\ instances' = FALSE /\ autoexposure' = FALSE /\ outputTemp' = FALSE
  /\ imageCopy' = FALSE
  /\ bcall' = [NoBuild EXCEPT !.op = "init"]
  /\ InsideBuild

\* one buildModel of the tile loop (unet_filter.cpp:231, 246): the loop calls
\* it again only after it returned false
BuildModel ==
  /\ bcall.ret \in {"none", "false"}
  /\ \E budget \in MemoryBudgets, need \in BuildNeeds,
        supported \in [1..numEngines -> BOOLEAN],
        aeSize \in BuildAutoexposureSizes, ubo \in BuildUBChoices :
     \E order \in BuildOrders(need) :
     \E st \in {buildModel([budget |-> budget, need |-> need, order |-> order,
                             supported |-> supported, aeSize |-> aeSize, ubo |-> ubo])} :
          /\ st.ret # "no such order"
          /\ instanceGraphs' = st.graphs
          /\ scratchBuffers' = st.scratchBuffers
          /\ autoexposure' = st.autoexposure
          /\ imageCopy' = st.imageCopy
          /\ outputTemp' = st.outputTemp
          /\ instances' = (st.ret = "true" /\ H > 0 /\ W > 0)
          /\ bcall' = [op |-> "buildModel", budget |-> budget, ret |-> st.ret,
                       err |-> st.err, cause |-> st.cause, aeSize |-> aeSize,
                       supported |-> supported,
                       totalMemoryByteSize |-> st.totalMemoryByteSize]
  /\ InsideBuild

\* init has created the instances of a filter whose image, grid and flags are
\* any of these
BuildInit ==
  /\ GraphInit
  /\ weights = WeightMap(4, 1) /\ tensorLayout = "hwc" /\ fusedPostOps = {}
  /\ ReorderIdle
  /\ H \in {0, 2} /\ W = 2 /\ overlap = 0 /\ alignment = 1
  /\ numEngines \in EngineCounts
  /\ tileH = 1 /\ tileW = 2 /\ tileCountH = 2 /\ tileCountW = 1
  /\ ipc = "loop" /\ fallback = FALSE /\ tiles = <<>>
  /\ color = Image("Float3", H, W, 1) /\ albedo = NoImage /\ normal = NoImage
  /\ output = Image("Float3", H, W, 2)
  /\ hdr \in BOOLEAN /\ srgb = FALSE /\ directional = FALSE /\ cleanAux = FALSE
  /\ progressFunc = FALSE
  /\ userWeightsBlob = NoData /\ inputScale = NaN
  /\ inplace \in BOOLEAN /\ fDirty = TRUE /\ dirtyParam = TRUE
  /\ weightsBlob = NoData
  /\ instances = FALSE /\ autoexposure = FALSE /\ outputTemp = FALSE
  /\ submitted = <<>>
  /\ fcall = [op |-> "commit", name |-> ""] /\ ferr = "none" /\ warned = FALSE /\ fmsg = ""
  /\ model = NoModel /\ outputDst = "" /\ commitWaits = 1
  /\ instanceGraphs = [i \in 1..numEngines |-> NewGraph]
  /\ scratchBuffers = <<>> /\ imageCopy = FALSE
  /\ bcall = NoBuild

BuildNext ==
  \/ InitInstances
  \/ BuildModel

BuildSpec == BuildInit /\ [][BuildNext]_vars

\* an instance graph with nothing in it that the next attempt can add to
EmptyAndBuilding(g) ==
  /\ g.ops = <<>> /\ g.tensorAllocs = <<>> /\ g.tensorAllocsByOp = EmptyMap
  /\ g.lazyInits = <<>>
  /\ ~g.scratch /\ ~g.dirty
  /\ ~g.finalized

\* C25: after any buildModel attempt that returns false, whether because
\* instance 0 exceeded the budget or because some instance (possibly one
\* built after earlier instances were already finalized) reported an
\* unsupported op, every instance graph is empty and back in the building
\* state, so the next buildModel attempt of the subdivision loop can add the
\* full U-Net op sequence to every instance without raising an error.
C25_FailedBuildLeavesGraphsBuilding ==
  /\ (bcall.op = "buildModel" /\ bcall.ret = "false") =>
       \A i \in DOMAIN instanceGraphs : EmptyAndBuilding(instanceGraphs[i])
  /\ bcall.ret # "raised"

\* the memory of a built model, from what the build left: the scratch buffer
\* of engine 0, the constants of its graph, and for every other engine the
\* scratch and the constants of a graph
BuiltTotalMemory ==
  LET g == instanceGraphs[1]
      graphScratch == g.opScratchByteSize + g.tensorScratchByteSize
  IN scratchBuffers[1] + g.constByteSize + (graphScratch + g.constByteSize) * (numEngines - 1)

\* the scratch buffer of engine 0 holds the graph's scratch or, when that is
\* larger, autoexposure's, and behind it the temporary output
ScratchOfEngine0 ==
  LET g == instanceGraphs[1]
      graphScratch == g.opScratchByteSize + g.tensorScratchByteSize
  IN (IF hdr THEN Max(graphScratch, bcall.aeSize) ELSE graphScratch)
       + (IF inplace /\ tileCountH * tileCountW > 1 THEN H * W ELSE 0)

\* C26: buildModel(budget) returns true only if totalMemory = scratch0 +
\* const0 + (graphScratch + const) * (numEngines - 1) is at most budget, where
\* scratch0 includes the autoexposure scratch and the outputTemp reservation;
\* when totalMemory exceeds budget it returns false having allocated no
\* scratch buffer and finalized no graph, with every instance graph cleared
\* and autoexposure, imageCopy and outputTemp unset.
C26_BuildModelKeepsBudget ==
  /\ (bcall.op = "buildModel" /\ bcall.ret = "true" /\ H > 0 /\ W > 0) =>
       /\ scratchBuffers[1] = ScratchOfEngine0
       /\ BuiltTotalMemory <= bcall.budget
  /\ (bcall.op = "buildModel" /\ bcall.totalMemoryByteSize > bcall.budget) =>
       /\ bcall.ret = "false"
       /\ scratchBuffers = <<>>
       /\ \A i \in DOMAIN instanceGraphs :
            /\ ~instanceGraphs[i].finalized
            /\ instanceGraphs[i].ops = <<>> /\ instanceGraphs[i].tensorAllocs = <<>>
            /\ ~instanceGraphs[i].scratch
       /\ ~autoexposure /\ ~imageCopy /\ ~outputTemp

\* C26 witness: a build for two engines with autoexposure and a temporary
\* output went over its budget
C26_Witness ==
  /\ bcall.op = "buildModel" /\ bcall.totalMemoryByteSize > bcall.budget
  /\ numEngines = 2 /\ hdr /\ inplace

\* the tensor views the last finalize created
TensorViews == {trace[k] : k \in {j \in 1..Len(trace) : trace[j].e = "newTensor"}}

\* C27: after finalize, every transient tensor view starts at maxOpScratch +
\* byteOffset, so no tensor's byte extent intersects the op-scratch region
\* [0, maxOpScratch) at the bottom of the scratch buffer that the ops use as
\* workspace, and every tensor extent ends within getScratchAlignedSize()
\* bytes.
C27_TensorsAboveOpScratch ==
  (call.op = "finalize" /\ ~ub) =>
    \A t \in TensorViews :
      /\ t.byteOffset >= MaxOpScratchOf(ops, 1)
      /\ t.byteOffset + t.byteSize <= opScratchByteSize + tensorScratchByteSize

\* the same without the op-scratch region, for the finalize of a graph whose
\* adds all succeeded: the views end within the size getScratchAlignedSize
\* reports
C27_TensorsWithinScratchSize ==
  [][(call'.op = "finalize" /\ OnlySuccessfulAdds /\ ChainsAcyclic) =>
       \A k \in 1..Len(trace') : trace'[k].e = "newTensor" =>
         trace'[k].byteOffset + trace'[k].byteSize
           <= opScratchByteSize' + tensorScratchByteSize']_vars

\* C28: run(progress) submits every op of the graph exactly once, in
\* insertion order, and reports exactly one unit of work to the progress
\* reporter after each submission and before the next op is submitted; it
\* submits nothing else and does not wait on the backend.
C28_RunSubmitsEachOpThenReports ==
  (call.op = "run") =>
    /\ \A k \in 1..Len(trace) : trace[k].e \in {"submit", "update"}
    /\ err = "none" =>
         /\ Len(trace) = 2 * Len(ops)
         /\ \A i \in 0..(Len(ops) - 1) :
              /\ trace[2 * i + 1] = [e |-> "submit", op |-> i]
              /\ trace[2 * i + 2] = [e |-> "update", n |-> 1]

\* C28 witness: a run of a graph of several ops has returned
C28_Witness ==
  /\ call.op = "run" /\ err = "none"
  /\ Len(ops) >= 2 /\ Len(trace) = 2 * Len(ops)

\* what finalize does, in order, on the graph of the state it is called in
FinalizeInOrder ==
  LET p == IF dirty THEN 1 ELSE 0
      n == Len(tensorAllocs)
      m == Len(lazyInits)
  IN /\ Len(trace') = p + n + m + 2 * Len(ops)
     /\ dirty => trace'[1].e = "planAllocations"
     /\ \A k \in 1..n : trace'[p + k].e = "newTensor" /\ trace'[p + k].alloc = k
     /\ \A k \in 1..m : trace'[p + n + k] = [e |-> "lazyInit", op |-> lazyInits[k]]
     /\ \A i \in 0..(Len(ops) - 1) :
          /\ trace'[p + n + m + 2 * i + 1] = [e |-> "setScratch", op |-> i]
          /\ trace'[p + n + m + 2 * i + 2] = [e |-> "finalize", op |-> i]

\* C29: finalize() performs in order: plan if dirty, bind a tensor view for
\* every TensorAlloc, run each lazy initializer exactly once in insertion
\* order, then set scratch and call the finalize hook of each op in insertion
\* order; afterwards the allocation records, the op-to-allocation map, the
\* lazy initializers and the weight map are empty, the op sequence is
\* unchanged and the graph is finalized.
C29_FinalizeOrderAndRelease ==
  [][call'.op = "finalize" =>
       /\ FinalizeInOrder
       /\ ~dirty'
       /\ tensorAllocs' = <<>> /\ DOMAIN tensorAllocsByOp' = {}
       /\ lazyInits' = <<>> /\ DOMAIN weights' = {}
       /\ ops' = ops
       /\ finalized']_vars

\* C29 witness: a finalize that had to plan has run the lazy initializers of
\* two ops
C29_Witness ==
  /\ call.op = "finalize" /\ finalized
  /\ Len(trace) >= 1 /\ trace[1].e = "planAllocations"
  /\ \E j, k \in 1..Len(trace) :
       /\ j < k /\ trace[j].e = "lazyInit" /\ trace[k].e = "lazyInit"
       /\ trace[j].op < trace[k].op

\* C30: an add operation that raises an error (add after finalization, a
\* chain-constraint violation, or an invalid weight/bias) leaves the builder
\* state unchanged: no op and no TensorAlloc is appended, no source
\* allocation's lastOpID is changed and no prev/next link is created.
C30_FailedAddChangesNothing ==
  [][(call'.op \in AddCalls /\ err' \in {"logic_error", "invalid_argument"} /\ ~ub') =>
       /\ ops' = ops
       /\ tensorAllocs' = tensorAllocs]_vars

\* the same for the adds that fail on their weight or bias
C30_InvalidWeightAddChangesNothing ==
  [][(call'.op \in AddCalls /\ err' = "invalid_argument" /\ ~ub') =>
       /\ ops' = ops
       /\ tensorAllocs' = tensorAllocs]_vars

(***************************************************************************)
(* The lazy initializer of a ConcatConvCHW (graph.cpp:203-223): one        *)
(* combined weight tensor, written by two reorderWeight calls.  A source   *)
(* TensorDesc is its channel count C and its padded channel count.         *)
(***************************************************************************)
\* engine->getDevice()->getTensorBlockC() (graph.cpp:139)
BlockCs == 1..MaxPaddedChannels

SrcDesc(c, blockC) == [C |-> c, paddedC |-> round_up(c, blockC)]

\* two calls that both write from input channel 0 of the destination
ConcatSlicesBothAtZero(src1Desc, src2Desc) ==
  [first  |-> [srcBeginI |-> 0, srcI |-> src1Desc.C,
               dstBeginI |-> 0, dstI |-> src1Desc.paddedC],
   second |-> [srcBeginI |-> src1Desc.C, srcI |-> src2Desc.C,
               dstBeginI |-> 0, dstI |-> src2Desc.paddedC]]

\* the arguments of the two reorderWeight calls (graph.cpp:212-215)
ConcatSlices(src1Desc, src2Desc) ==
  [first  |-> [srcBeginI |-> 0, srcI |-> src1Desc.C,
               dstBeginI |-> 0, dstI |-> src1Desc.paddedC],
   second |-> [srcBeginI |-> src1Desc.C, srcI |-> src2Desc.C,
               dstBeginI |-> src1Desc.paddedC, dstI |-> src2Desc.paddedC]]

\* paddedWeightDims of addConcatConv (graph.cpp:146-149)
ConcatPaddedWeightDims(weight, src1Desc, src2Desc, blockC) ==
  <<round_up(weight.dims[1], blockC), src1Desc.paddedC + src2Desc.paddedC,
    weight.dims[3], weight.dims[4]>>

\* the iterations of the four loops of one tryReorderWeight call
\* (graph.cpp:517-523): each writes one element of dst
LoopIterations(dst, a) ==
  AccessorDims(dst)[1] * a.dstI * AccessorDims(dst)[3] * AccessorDims(dst)[4]

\* the weight layouts of the devices that take the ConcatConvCHW branch, the
\* last of them with no reorder into float
ConcatWeightLayouts == {"oihw", "OIhw2o8i8o2i"}

\* the closure pushed by the addConcatConv that has just returned; the channel
\* count of a source is the size of its TensorAlloc
ConcatConvLazyInit ==
  /\ Alive /\ rcall = "none"
  /\ call.op = "addConcatConv" /\ err = "none"
  /\ ops[Len(ops)].kind = "ConcatConvCHW"
  /\ \E blockC \in BlockCs, O \in 1..MaxChannels, t \in DataTypes,
        l \in ConcatWeightLayouts :
       LET src1Alloc == tensorAllocsByOp[ops[Len(ops)].srcs[1]]
           src2Alloc == tensorAllocsByOp[ops[Len(ops)].srcs[2]]
           src1Desc == SrcDesc(tensorAllocs[src1Alloc].byteSize, blockC)
           src2Desc == SrcDesc(tensorAllocs[src2Alloc].byteSize, blockC)
           weight == SourceTensor("half", "oihw",
                                  <<O, src1Desc.C + src2Desc.C,
                                    KernelDims[1], KernelDims[2]>>)
           finalWeight == NewTensor(t, l, weight.dims,
                            ConcatPaddedWeightDims(weight, src1Desc, src2Desc, blockC))
           a  == ConcatSlices(src1Desc, src2Desc)
       IN \E r1 \in {reorderWeight(weight, finalWeight, a.first)} :
          \E r2 \in {IF r1.err = "none"
                     THEN reorderWeight(weight, r1.dst, a.second) ELSE r1} :
            /\ srcTensor' = weight
            /\ dstTensor' = r2.dst
            /\ rerr' = r2.err
            /\ reorderArgs' = a
  /\ rcall' = "concatConvCHW"
  /\ UNCHANGED <<graphVars, tileVars, paramVars, filterVars, buildVars>>

ConcatInit ==
  /\ Init
  /\ weights = WeightMap(4, 1)
  /\ fusedPostOps = {}

\* the graph has no concat convolution
NoConcatYet ==
  \A k \in 1..Len(ops) : ops[k].kind \notin {"ConcatConvHWC", "ConcatConvCHW"}

\* graphs of input ops and one concat convolution over two of them
ConcatNext ==
  \/ NoConcatYet /\ AddInputProcess
  \/ NoConcatYet /\ AddConcatConv
  \/ ConcatConvLazyInit

ConcatSpec == ConcatInit /\ [][ConcatNext]_vars

\* the step added a concat convolution
ConcatAdded ==
  /\ call'.op = "addConcatConv" /\ err' = "none" /\ ~ub'
  /\ Len(ops') = Len(ops) + 1

\* the TensorAllocs of the two sources of the op added last
SrcAllocsOfLast(opSeq, byOp) ==
  [k \in 1..2 |-> byOp[opSeq[Len(opSeq)].srcs[k]]]

\* every element of the combined weight tensor has been written, by as many
\* loop iterations as the tensor has elements
CombinedWeightWrittenOnce ==
  /\ reorderArgs.first.dstBeginI = 0
  /\ reorderArgs.second.dstBeginI = reorderArgs.first.dstI
  /\ dstTensor.paddedDims[2] = reorderArgs.first.dstI + reorderArgs.second.dstI
  /\ \A idx \in DOMAIN dstTensor.data :
       dstTensor.data[idx] # Indeterminate(dstTensor.dataType)
  /\ LoopIterations(dstTensor, reorderArgs.first)
       + LoopIterations(dstTensor, reorderArgs.second)
     = Cardinality(DOMAIN dstTensor.data)

\* C31: for a concat convolution in a CHW-family layout the two source
\* allocations are chained src1.next = src2, the combined weight tensor has
\* src1.paddedC + src2.paddedC padded input channels, and the two repack calls
\* write the input-channel ranges [0, src1.paddedC) and
\* [src1.paddedC, src1.paddedC + src2.paddedC), so that every element of the
\* combined weight tensor is written exactly once; in the hwc layout the two
\* sources are not chained.
C31_ConcatChainsAndWritesOnce ==
  [][/\ ConcatAdded =>
          LET s == SrcAllocsOfLast(ops', tensorAllocsByOp)
          IN IF tensorLayout = "hwc"
             THEN \A k \in 1..2 :
                    /\ tensorAllocs'[s[k]].next = tensorAllocs[s[k]].next
                    /\ tensorAllocs'[s[k]].prev = tensorAllocs[s[k]].prev
             ELSE /\ tensorAllocs'[s[1]].next = s[2]
                  /\ tensorAllocs'[s[2]].prev = s[1]
     /\ (rcall' = "concatConvCHW" /\ rerr' = "none") =>
          /\ dstTensor'.paddedDims[2] =
               reorderArgs'.first.dstI + reorderArgs'.second.dstI
          /\ CombinedWeightWrittenOnce']_vars

\* C31 witness: a graph in a CHW-family layout whose concat convolution chained
\* two different sources, and whose combined weight tensor, padded in both
\* sources' channels, has been written
C31_Witness ==
  /\ tensorLayout = "chw" /\ ~ub
  /\ \E k \in 1..Len(ops) :
       /\ ops[k].kind = "ConcatConvCHW"
       /\ ops[k].srcs[1] # ops[k].srcs[2]
       /\ tensorAllocs[tensorAllocsByOp[ops[k].srcs[1]]].next
            = tensorAllocsByOp[ops[k].srcs[2]]
  /\ rcall = "concatConvCHW" /\ rerr = "none"
  /\ reorderArgs.first.dstI > reorderArgs.first.srcI
  /\ reorderArgs.second.dstI > reorderArgs.second.srcI

\* the first records of the chunks, and the orders in which their sizes never
\* increase
ChunkHeads == {a \in AllocIds : tensorAllocs[a].prev = NullPtr}

DecreasingOrders ==
  {p \in [1..Cardinality(ChunkHeads) -> ChunkHeads] :
     /\ \A i, j \in DOMAIN p : i # j => p[i] # p[j]
     /\ \A i \in DOMAIN p : i + 1 \in DOMAIN p =>
          SumByteSize(ChainMembers(p[i])) >= SumByteSize(ChainMembers(p[i + 1]))}

AllocEnd(b) == tensorAllocs[b].byteOffset + tensorAllocs[b].byteSize

\* the records placed before the k-th chunk of the order p that live at some
\* op at which the chunk lives
PlacedInTime(p, k) ==
  LET S == ChainMembers(p[k])
  IN {b \in UNION {ChainMembers(p[j]) : j \in 1..(k - 1)} :
        tensorAllocs[b].firstOpID <= MaxLastOp(S) /\ MinFirstOp(S) <= tensorAllocs[b].lastOpID}

\* the gaps between the records of B: the byte ranges <<begin, end>> that begin
\* at 0 or where a record ends, end where a record begins and hold no byte of
\* a record
GapsBetween(B) ==
  {g \in ({0} \cup {AllocEnd(b) : b \in B}) \X {tensorAllocs[b].byteOffset : b \in B} :
     /\ g[1] < g[2]
     /\ \A b \in B : AllocEnd(b) <= g[1] \/ g[2] <= tensorAllocs[b].byteOffset}

\* where the k-th chunk of the order p belongs: the smallest gap that fits it,
\* the lowest of them if there are several, or else the highest end
GapOrAppendOffset(p, k) ==
  LET B == PlacedInTime(p, k)
      size == SumByteSize(ChainMembers(p[k]))
      fitting == {g \in GapsBetween(B) : g[2] - g[1] >= size}
      ends == {0} \cup {AllocEnd(b) : b \in B}
  IN IF fitting = {}
     THEN CHOOSE e \in ends : \A f \in ends : e >= f
     ELSE (CHOOSE g \in fitting :
             \A f \in fitting :
               \/ f[2] - f[1] > g[2] - g[1]
               \/ f[2] - f[1] = g[2] - g[1] /\ g[1] <= f[1])[1]

\* C32: the planner processes the chunks in order of decreasing byteSize and
\* places each chunk at the start of the smallest gap that fits it between the
\* already placed allocations that overlap the chunk in time (the first such
\* gap in ascending offset order on ties) and, when no gap fits, at the
\* largest end offset of any already placed allocation that overlaps it in
\* time (offset 0 when none does); allocations that do not overlap the chunk
\* in time never influence its offset.
C32_SmallestFittingGapOrAppend ==
  (call.op = "getScratchAlignedSize" /\ ~dirty) =>
    \E p \in DecreasingOrders :
      \A k \in DOMAIN p : tensorAllocs[p[k]].byteOffset = GapOrAppendOffset(p, k)

\* C32 witness: the planner has placed the records of the gap example and put
\* the record of 5 bytes into the gap of 10 bytes behind the gap of 30 bytes
C32_Witness ==
  /\ call.op = "getScratchAlignedSize" /\ ~dirty
  /\ Unplaced(tensorAllocs) = GapExample
  /\ tensorAllocs[5].byteOffset = 50

\* the builder with the adds of one-source and two-source ops only, on a
\* graph with well-formed weights
AddNext ==
  \/ AddInputProcess
  \/ AddOutputProcess
  \/ AddConcatConv
  \/ AddPool
  \/ AddUpsample

AddSpec == ConcatInit /\ [][AddNext]_vars

OpIds == 0..(Len(ops) - 1)

\* the TensorAllocs created for the destination of op i
ProducedBy(i) == {a \in AllocIds : tensorAllocs[a].firstOpID = i}

\* the ops that have op i among their sources
Readers(i) == {j \in OpIds : \E k \in DOMAIN ops[j + 1].srcs : ops[j + 1].srcs[k] = i}

\* C33: after every sequence of successful add operations, each op with a
\* destination has exactly one TensorAlloc whose firstOpID is the ID of that
\* producing op, every TensorAlloc satisfies 0 <= firstOpID <= lastOpID < |ops|,
\* and lastOpID is the ID of the last op added that reads the tensor (or
\* firstOpID when none does).
C33_LifetimesFollowProducerAndReaders ==
  OnlySuccessfulAdds =>
    /\ \A i \in OpIds : ops[i + 1].kind # "OutputProcess" =>
         /\ Cardinality(ProducedBy(i)) = 1
         /\ tensorAllocsByOp[i] \in ProducedBy(i)
    /\ \A a \in AllocIds :
         /\ 0 <= tensorAllocs[a].firstOpID
         /\ tensorAllocs[a].firstOpID <= tensorAllocs[a].lastOpID
         /\ tensorAllocs[a].lastOpID < Len(ops)
         /\ LET from == {tensorAllocs[a].firstOpID} \cup Readers(tensorAllocs[a].firstOpID)
            IN \A j \in from : j <= tensorAllocs[a].lastOpID
         /\ tensorAllocs[a].lastOpID
              \in {tensorAllocs[a].firstOpID} \cup Readers(tensorAllocs[a].firstOpID)

\* C33 witness: successful adds have built a graph in which a concat
\* convolution reads two tensors, one of them produced two or more ops
\* before it, and in which one tensor is read by no op
C33_Witness ==
  /\ OnlySuccessfulAdds
  /\ \E k \in 1..Len(ops) :
       /\ ops[k].kind \in {"ConcatConvHWC", "ConcatConvCHW"}
       /\ ops[k].srcs[1] # ops[k].srcs[2]
       /\ \E a \in AllocIds :
            /\ tensorAllocs[a].lastOpID = k - 1
            /\ tensorAllocs[a].firstOpID < k - 2
  /\ \E a \in AllocIds : tensorAllocs[a].lastOpID = tensorAllocs[a].firstOpID

\* the input tile of the k-th tile lies inside the tileH x tileW tile buffer
InputTileInsideBuffer(k) ==
  /\ tiles[k].srcAlignH >= 0 /\ tiles[k].srcAlignW >= 0
  /\ tiles[k].srcAlignH + tiles[k].tileH1 <= tileH
  /\ tiles[k].srcAlignW + tiles[k].tileW1 <= tileW

\* C34: for every tile (i, j) of the final grid in execute, alignOffsetH and
\* alignOffsetW are non-negative and the input tile of size (tileH1, tileW1)
\* placed at internal offset (alignOffsetH, alignOffsetW) lies inside the
\* tileH x tileW internal tile buffer, for every overlap and alignment
\* (including tile sizes that are not multiples of alignment).
C34_InputTileInsideBuffer ==
  Executed => \A k \in 1..Len(tiles) : InputTileInsideBuffer(k)

\* the same for the grids whose tile sizes are multiples of the alignment
C34_InputTileInsideBufferWhenAligned ==
  (Executed /\ tileH % alignment = 0 /\ tileW % alignment = 0) =>
    \A k \in 1..Len(tiles) : InputTileInsideBuffer(k)

\* unet_filter.cpp:102-107: the workAmount that execute passes to progress.start
WorkAmount ==
  tileCountH * tileCountW * GraphWorkAmount
    + (IF hdr /\ inputScale = NaN THEN 1 ELSE 0)
    + (IF outputTemp THEN 1 ELSE 0)

\* the units of work reported before progress.finish: every update reports one
UpdatesBeforeFinish ==
  Cardinality({i \in 1..Len(submitted) :
                 /\ submitted[i] = "update"
                 /\ \E f \in EventsAt("finish") : i < f})

\* C35: in every execute that is not aborted, the total number of work units
\* reported through progress.update before progress.finish equals the
\* workAmount passed to progress.start, in all four cases of autoexposure run
\* or not and outputTemp present or not.
C35_UpdatesAddUpToWorkAmount ==
  Executed => UpdatesBeforeFinish = WorkAmount

\* the same for the executes without outputTemp
C35_UpdatesAddUpToWorkAmountWithoutCopy ==
  (Executed /\ ~outputTemp) => UpdatesBeforeFinish = WorkAmount

\* unet_filter.cpp:209-217: init has created the instances, each with a Graph
\* on the selected weights blob, and the transfer function, and no cleanup
\* has destroyed them
InstancesCreated == weightsBlob # NoData

\* the last call was a commit whose init raised
InitFailed == fcall.op = "commit" /\ ferr # "none" /\ ipc = "idle"

\* C36: if init fails during a commit (parameter validation, weight selection
\* or model build raises), the filter stays dirty with dirtyParam still set
\* and holds no instances, transfer function, autoexposure, image copy or
\* outputTemp, so every execute before a later successful commit raises
\* InvalidOperation and a later commit runs init again.
C36_FailedInitLeavesNothing ==
  [][/\ InitFailed' =>
          /\ fDirty' /\ dirtyParam'
          /\ ~InstancesCreated'
          /\ ~instances' /\ ~autoexposure' /\ ~outputTemp'
     /\ (InitFailed /\ fcall'.op = "execute") => ferr' = "InvalidOperation"
     /\ (InitFailed /\ fcall'.op = "commit") => commitWaits' >= 1]_vars

\* the same without the instances and the transfer function: a failed init
\* leaves the filter dirty and without a built model, autoexposure or
\* outputTemp
C36_FailedInitStaysDirty ==
  [][/\ InitFailed' =>
          /\ fDirty' /\ dirtyParam'
          /\ ~instances' /\ ~autoexposure' /\ ~outputTemp' /\ model' = NoModel
     /\ (InitFailed /\ fcall'.op = "execute") => ferr' = "InvalidOperation"
     /\ (InitFailed /\ fcall'.op = "commit") => commitWaits' >= 1]_vars

\* an init that failed in parameter validation or weight selection leaves no
\* instances
C36_EarlyFailureLeavesNoInstances ==
  (InitFailed /\ ferr # "runtime_error") => ~InstancesCreated

====
